---- MODULE Spec2Model ----
(***************************************************************************)
(* Model of the zapang logging pipeline: the module-root package           *)
(* (New / NewWithLevel, console core + optional JSON export core) and the  *)
(* pkg/logger package (New over OutputPaths, Logger wrapper with           *)
(* SetLevel / GetLevel).  Both build a zapcore.Tee of io cores sharing one *)
(* zap.AtomicLevel, optionally wrapped in zapcore.NewSamplerWithOptions,   *)
(* register a process-wide logger and start a goroutine that syncs the     *)
(* logger when the construction context is done.                           *)
(***************************************************************************)
EXTENDS Integers, Sequences, FiniteSets, TLC

(* ---------------- bounds of the model ---------------- *)
MaxPipes == 1
MaxRegs == 2
MaxOut == 2
MaxSamplers == 1
MaxSampled == 4
MaxHandles == 3
MaxFields == 3
MaxCount == 10
MaxTime == 4
MaxCtx == 3
MaxFlush == 2
MaxCalls == 2

(* ---------------- zapcore levels (parseLevel's results) ---------------- *)
DebugLevel == -1
InfoLevel == 0
WarnLevel == 1
ErrorLevel == 2
DPanicLevel == 3
PanicLevel == 4
FatalLevel == 5

Levels == DebugLevel..FatalLevel

\* Levels of the events the model emits.  A Fatal event writes the entry and
\* then ends the process (os.Exit), after which nothing happens: it is left
\* out of the emitted levels, and kept as a threshold.
EmitLevels == DebugLevel..PanicLevel

\* Mutant: an unknown name gives the most verbose level.
parseLevelVerbose(level) ==
    CASE level = "debug" -> DebugLevel
      [] level = "info" -> InfoLevel
      [] level \in {"warn", "warning"} -> WarnLevel
      [] level = "error" -> ErrorLevel
      [] level = "dpanic" -> DPanicLevel
      [] level = "panic" -> PanicLevel
      [] level = "fatal" -> FatalLevel
      [] OTHER -> DebugLevel

\* parseLevel of both packages: the switch is on the string as given.
parseLevel(level) ==
    CASE level = "debug" -> DebugLevel
      [] level = "info" -> InfoLevel
      [] level \in {"warn", "warning"} -> WarnLevel
      [] level = "error" -> ErrorLevel
      [] level = "dpanic" -> DPanicLevel
      [] level = "panic" -> PanicLevel
      [] level = "fatal" -> FatalLevel
      [] OTHER -> InfoLevel

(* ---------------- environments and destinations ---------------- *)
EnvLocal == "local"
EnvProd == "prod"
EnvDev == "dev"

\* The two packages of the repository; each has its own globals and its own
\* context key type.
Pkgs == {"root", "pkg"}

\* Paths os.OpenFile cannot open in the modelled environment.
UnwritablePaths == {"/nodir/app.log"}

\* The result of resolving a destination string: "" when the open fails.
OpenDest(path) ==
    CASE path = "stdout" -> "stdout"
      [] path = "stderr" -> "stderr"
      [] path \in UnwritablePaths -> ""
      [] OTHER -> path

(* ---------------- messages and the sampler's counter index ---------------- *)
\* Messages are byte strings: "asl", "bea" and "ok".
MsgAsl == <<97, 115, 108>>
MsgBea == <<98, 101, 97>>
MsgOk == <<111, 107>>
Messages == {MsgAsl, MsgBea, MsgOk}

RECURSIVE XorBits(_, _, _)
XorBits(a, b, k) ==
    IF k = 0 THEN 0
    ELSE (((a % 2) + (b % 2)) % 2) + 2 * XorBits(a \div 2, b \div 2, k - 1)

\* One round of FNV-1a over 32 bits kept as <<high 16 bits, low 16 bits>>:
\* h ^= byte; h *= 16777619 (= 256 * 65536 + 403), modulo 2^32.
FnvStep(h, byte) ==
    LET lo1 == (h[2] \div 256) * 256 + XorBits(h[2] % 256, byte, 8)
        prod == lo1 * 403
    IN  << (h[1] * 403 + lo1 * 256 + (prod \div 65536)) % 65536, prod % 65536 >>

RECURSIVE FnvFrom(_, _, _)
FnvFrom(h, key, i) ==
    IF i > Len(key) THEN h ELSE FnvFrom(FnvStep(h, key[i]), key, i + 1)

\* fnv32a of the key, offset basis 2166136261 = 0x811C9DC5.
fnv32a(key) == FnvFrom(<<33052, 40389>>, key, 1)

CountersPerLevel == 4096

\* counters.get: the counter of (level, message) is counts[level][fnv32a(message) % 4096].
Bucket(msg) == fnv32a(msg)[2] % CountersPerLevel

BucketOf == [m \in Messages |-> Bucket(m)]
Buckets == {BucketOf[m] : m \in Messages}
CounterKeys == EmitLevels \X Buckets

\* time.Second in model time units (one unit is half a second).
TickLen == 2

(* ---------------- handles ---------------- *)
\* A *zap.Logger is its core (the pipeline it writes to) and its bound fields.
\* pipe = 0 is the no-op logger of zap.NewNop(), pipe = -1 the nil pointer.
NilLogger == [pipe |-> -1, fields |-> <<>>]
NopLogger == [pipe |-> 0, fields |-> <<>>]

NoSampling == [Initial |-> 0, Thereafter |-> 0, set |-> FALSE]

VARIABLES
    levels,        \* the zap.AtomicLevel objects: id -> current level
    pipes,         \* the constructed pipelines, in construction order
    counts,        \* per pipeline: the sampler's counters
    occ,           \* per pipeline: the entries of each (level, message) pair that
                   \* reached the sampler in the running window of the pair's counter
    out,           \* per pipeline, per core: the records written
    synced,        \* per pipeline, per core: how many records are synced
    failing,       \* destinations whose Write and Sync currently fail
    now,           \* the clock
    handles,       \* the loggers the program holds
    globalLogger,  \* per package: the process-wide logger (NilLogger: unset)
    globalLevel,   \* root package: the process-wide AtomicLevel (0: zero value)
    pending,       \* pipelines whose New has not registered yet
    ctxs,          \* the contexts: parent, key owner, value
    cancelled,     \* the contexts whose cancel function was called
    watcher,       \* per pipeline: the shutdown goroutine's position
    flushes,       \* per pipeline: Sync calls by the watcher / by callers
    lastEmit,      \* the last emit: what was asked and what was written
    lastSync,      \* the last Sync call and its result
    lastSet,       \* the last level change: the AtomicLevel and the level
    ret,           \* the last FromContext / Global / GetLevel / GlobalLevel call and
                   \* its result, or the call that panicked
    setCalls       \* the SetLevel calls that have parsed their argument and not
                   \* stored it yet, and the levels ever passed to each AtomicLevel

vars == << levels, pipes, counts, occ, out, synced, failing, now, handles, globalLogger,
           globalLevel, pending, ctxs, cancelled, watcher, flushes, lastEmit,
           lastSync, lastSet, ret, setCalls >>

NoEmit == [pipe |-> -1, lvl |-> 0, msg |-> <<>>, fields |-> <<>>, thr |-> 0, n |-> 0,
           occ |-> 0, window |-> 0, before |-> [n |-> 0, resetAt |-> 0],
           tried |-> {}, wrote |-> {}]
NoSync == [pipe |-> -1, by |-> "", err |-> FALSE, before |-> <<>>]
NoSet == [ctl |-> 0, lvl |-> 0, name |-> ""]
NoRet == [op |-> "", pkg |-> "", ctx |-> 0, res |-> NilLogger, ctl |-> 0, lvl |-> 0,
          panic |-> FALSE]
NoCalls == [inflight |-> {}, passed |-> {}]

Background == [parent |-> 0, key |-> "", val |-> NilLogger]

Init ==
    /\ levels = <<>>
    /\ pipes = <<>>
    /\ counts = <<>>
    /\ occ = <<>>
    /\ out = <<>>
    /\ synced = <<>>
    /\ failing = {}
    /\ now = 0
    /\ handles = {}
    /\ globalLogger = [k \in Pkgs |-> NilLogger]
    /\ globalLevel = 0
    /\ pending = {}
    /\ ctxs = << Background >>
    /\ cancelled = {}
    /\ watcher = <<>>
    /\ flushes = <<>>
    /\ lastEmit = NoEmit
    /\ lastSync = NoSync
    /\ lastSet = NoSet
    /\ ret = NoRet
    /\ setCalls = NoCalls

(* ---------------- construction ---------------- *)
NoCore == [dest |-> "", enc |-> "", lvl |-> 0]

\* buildConsoleCore: console encoder over os.Stdout.
buildConsoleCore(level) == [dest |-> "stdout", enc |-> "console", lvl |-> level]

\* buildJSONExportCore: nil when the path cannot be opened.
buildJSONExportCore(path, level) ==
    IF OpenDest(path) = "" THEN NoCore
    ELSE [dest |-> OpenDest(path), enc |-> "json", lvl |-> level]

\* pkg/logger newEncoder: console for "development", JSON otherwise.
newEncoder(env) == IF env = "development" THEN "console" ELSE "json"

\* pkg/logger buildCore: nil when the path cannot be opened.
buildCore(path, level, env) ==
    IF OpenDest(path) = "" THEN NoCore
    ELSE [dest |-> OpenDest(path), enc |-> newEncoder(env), lvl |-> level]

\* The core around the injected io.Writer.
WriterCore(enc, level) == [dest |-> "writer", enc |-> enc, lvl |-> level]

IsCore(c) == c # NoCore

\* Mutant: the export core is built whenever an export path is given.
RootCoresAnyEnv(cfg, w, level) ==
    << buildConsoleCore(level) >>
    \o (IF cfg.ExportPath # "" /\ IsCore(buildJSONExportCore(cfg.ExportPath, level))
        THEN << buildJSONExportCore(cfg.ExportPath, level) >> ELSE <<>>)
    \o (IF w THEN << WriterCore("console", level) >> ELSE <<>>)

\* The cores NewWithLevel appends, in order.
RootCores(cfg, w, level) ==
    << buildConsoleCore(level) >>
    \o (IF cfg.ExportPath # "" /\ (cfg.Environment = EnvDev \/ cfg.Environment = EnvProd)
           /\ IsCore(buildJSONExportCore(cfg.ExportPath, level))
        THEN << buildJSONExportCore(cfg.ExportPath, level) >> ELSE <<>>)
    \o (IF w THEN << WriterCore("console", level) >> ELSE <<>>)

\* Mutant: the stdout fallback is forgotten.
PkgCoresNoFallback(cfg, w, level) ==
    SelectSeq([i \in DOMAIN cfg.OutputPaths |->
                  buildCore(cfg.OutputPaths[i], level, cfg.Environment)], IsCore)
    \o (IF w THEN << WriterCore(newEncoder(cfg.Environment), level) >> ELSE <<>>)

\* Mutant: one path that cannot be opened makes New give up on all of them.
PkgCoresAbort(cfg, w, level) ==
    IF \E i \in DOMAIN cfg.OutputPaths : OpenDest(cfg.OutputPaths[i]) = ""
    THEN << [dest |-> "stdout", enc |-> newEncoder(cfg.Environment), lvl |-> level] >>
    ELSE [i \in DOMAIN cfg.OutputPaths |->
             buildCore(cfg.OutputPaths[i], level, cfg.Environment)]
         \o (IF w THEN << WriterCore(newEncoder(cfg.Environment), level) >> ELSE <<>>)

\* The cores pkg/logger New appends, in order, with the stdout fallback.
PkgCores(cfg, w, level) ==
    LET built == [i \in DOMAIN cfg.OutputPaths |->
                     buildCore(cfg.OutputPaths[i], level, cfg.Environment)]
        given == SelectSeq(built, IsCore)
                 \o (IF w THEN << WriterCore(newEncoder(cfg.Environment), level) >> ELSE <<>>)
    IN  IF Len(given) = 0
        THEN << [dest |-> "stdout", enc |-> newEncoder(cfg.Environment), lvl |-> level] >>
        ELSE given

\* Mutant: every configured policy installs the sampler.
SamplerOfAnyPolicy(cfg) ==
    IF cfg.Sampling.set
    THEN [on |-> TRUE, first |-> cfg.Sampling.Initial, thereafter |-> cfg.Sampling.Thereafter]
    ELSE [on |-> FALSE, first |-> 0, thereafter |-> 0]

\* "Apply sampling if configured": the sampler wraps the tee only when a policy
\* is given and its Initial is positive.
SamplerOf(cfg) ==
    IF cfg.Sampling.set /\ cfg.Sampling.Initial > 0
    THEN [on |-> TRUE, first |-> cfg.Sampling.Initial, thereafter |-> cfg.Sampling.Thereafter]
    ELSE [on |-> FALSE, first |-> 0, thereafter |-> 0]

\* zap.Fields(zap.String("service", serviceName)) of buildOptions.
buildOptions(serviceName) == << <<"service", serviceName>> >>

\* zap.AddStacktrace of buildOptions (both packages): the level from which a
\* logged entry carries a stack.  Without the option zap.New leaves it above
\* FatalLevel.
StackLevel(cfg) ==
    IF cfg.DisableStacktrace THEN FatalLevel + 1
    ELSE IF cfg.StacktraceLevel = "" THEN ErrorLevel
    ELSE parseLevel(cfg.StacktraceLevel)

BuildPipe(pkg, via, c, serviceName, cfg, w, level) ==
    [pkg |-> pkg,
     via |-> via,
     cores |-> IF pkg = "root" THEN RootCores(cfg, w, level) ELSE PkgCores(cfg, w, level),
     sampler |-> SamplerOf(cfg),
     level |-> level,
     ctx |-> c,
     fields |-> buildOptions(serviceName),
     stack |-> StackLevel(cfg),
     cfg |-> cfg,
     w |-> w]

HandleOf(p) == [pipe |-> p, fields |-> pipes[p].fields]

FreshCounts == [k \in CounterKeys |-> [n |-> 0, resetAt |-> 0]]

\* What the sampler's counters stand for: of[<<level, message>>] is the number
\* of events of the pair counted since its counter last restarted, and
\* windows[key] tells whether counter key is unused (0), in its first window
\* (1) or in a later one (2); below holds the pairs of the events the level
\* has rejected on a sampling pipeline.
FreshOcc ==
    [of |-> [k \in EmitLevels \X Messages |-> 0], windows |-> [k \in CounterKeys |-> 0],
     below |-> {}]

\* The body shared by NewWithLevel and both New: parse the level, make the
\* AtomicLevel, build the cores, the tee, the sampler and the logger; via names
\* the function the program called.
Construct(pkg, via, c, serviceName, cfg, w) ==
    LET id == Len(pipes) + 1
        P == BuildPipe(pkg, via, c, serviceName, cfg, w, Len(levels) + 1)
    IN  /\ c \in DOMAIN ctxs
        /\ levels' = Append(levels, parseLevel(cfg.Level))
        /\ pipes' = Append(pipes, P)
        /\ counts' = Append(counts, FreshCounts)
        /\ occ' = Append(occ, FreshOcc)
        /\ out' = Append(out, [i \in DOMAIN P.cores |-> <<>>])
        /\ synced' = Append(synced, [i \in DOMAIN P.cores |-> 0])
        /\ flushes' = Append(flushes, [watcher |-> 0, explicit |-> 0])

\* NewWithLevel: construct, start the watcher, return logger and level.
NewWithLevel(c, serviceName, cfg, w) ==
    /\ Construct("root", "NewWithLevel", c, serviceName, cfg, w)
    /\ watcher' = Append(watcher, "waiting")
    /\ handles' = handles \cup {[pipe |-> Len(pipes) + 1, fields |-> buildOptions(serviceName)]}
    /\ UNCHANGED << failing, now, globalLogger, globalLevel, pending, ctxs, cancelled,
                    lastEmit, lastSync, lastSet, setCalls, ret >>

\* New, up to the registration: for the root package the NewWithLevel call
\* (the watcher runs already), for pkg/logger the construction (the watcher
\* starts after the registration).
NewBegin(pkg, c, serviceName, cfg, w) ==
    /\ Construct(pkg, "New", c, serviceName, cfg, w)
    /\ watcher' = Append(watcher, IF pkg = "root" THEN "waiting" ELSE "none")
    /\ pending' = pending \cup {Len(pipes) + 1}
    /\ UNCHANGED << failing, now, handles, globalLogger, globalLevel, ctxs, cancelled,
                    lastEmit, lastSync, lastSet, setCalls, ret >>

\* New called with no other call of the program in between: the construction,
\* the registration and the watcher's start.
New(pkg, c, serviceName, cfg, w) ==
    /\ Construct(pkg, "New", c, serviceName, cfg, w)
    /\ watcher' = Append(watcher, "waiting")
    /\ globalLogger' = [globalLogger EXCEPT
                          ![pkg] = [pipe |-> Len(pipes) + 1, fields |-> buildOptions(serviceName)]]
    /\ globalLevel' = IF pkg = "root" THEN Len(levels) + 1 ELSE globalLevel
    /\ handles' = handles \cup {[pipe |-> Len(pipes) + 1, fields |-> buildOptions(serviceName)]}
    /\ UNCHANGED << failing, now, pending, ctxs, cancelled, lastEmit, lastSync, lastSet, setCalls, ret >>

\* Mutant: a registration does not replace a logger registered before.
NewRegisterFirstWins(p) ==
    /\ p \in pending
    /\ pending' = pending \ {p}
    /\ globalLogger' = IF globalLogger[pipes[p].pkg] = NilLogger
                       THEN [globalLogger EXCEPT ![pipes[p].pkg] = HandleOf(p)]
                       ELSE globalLogger
    /\ globalLevel' = IF pipes[p].pkg = "root" /\ globalLevel = 0 THEN pipes[p].level
                      ELSE globalLevel
    /\ watcher' = [watcher EXCEPT ![p] = IF @ = "none" THEN "waiting" ELSE @]
    /\ handles' = handles \cup {HandleOf(p)}
    /\ UNCHANGED << levels, pipes, counts, occ, out, synced, failing, now, ctxs, cancelled,
                    flushes, lastEmit, lastSync, lastSet, setCalls, ret >>

\* Mutant: the level is registered by the first New only.
NewRegisterKeepsLevel(p) ==
    /\ p \in pending
    /\ pending' = pending \ {p}
    /\ globalLogger' = [globalLogger EXCEPT ![pipes[p].pkg] = HandleOf(p)]
    /\ globalLevel' = IF pipes[p].pkg = "root" /\ globalLevel = 0 THEN pipes[p].level
                      ELSE globalLevel
    /\ watcher' = [watcher EXCEPT ![p] = IF @ = "none" THEN "waiting" ELSE @]
    /\ handles' = handles \cup {HandleOf(p)}
    /\ UNCHANGED << levels, pipes, counts, occ, out, synced, failing, now, ctxs, cancelled,
                    flushes, lastEmit, lastSync, lastSet, setCalls, ret >>

\* New, the registration under globalMu and the return.
NewRegister(p) ==
    /\ p \in pending
    /\ pending' = pending \ {p}
    /\ globalLogger' = [globalLogger EXCEPT ![pipes[p].pkg] = HandleOf(p)]
    /\ globalLevel' = IF pipes[p].pkg = "root" THEN pipes[p].level ELSE globalLevel
    /\ watcher' = [watcher EXCEPT ![p] = IF @ = "none" THEN "waiting" ELSE @]
    /\ handles' = handles \cup {HandleOf(p)}
    /\ UNCHANGED << levels, pipes, counts, occ, out, synced, failing, now, ctxs, cancelled,
                    flushes, lastEmit, lastSync, lastSet, setCalls, ret >>

(* ---------------- emitting ---------------- *)
\* The length of the longest sink of pipeline p, and the sum over the pipelines.
Longest(p) ==
    LET lens == {Len(out[p][i]) : i \in DOMAIN out[p]}
    IN  IF lens = {} THEN 0 ELSE CHOOSE n \in lens : \A m \in lens : m <= n

RECURSIVE TotalUpTo(_)
TotalUpTo(p) == IF p = 0 THEN 0 ELSE Longest(p) + TotalUpTo(p - 1)
TotalOut == TotalUpTo(Len(out))

\* Mutant: the threshold itself is excluded.
CoreEnabledStrict(core, lvl) == lvl > levels[core.lvl]

\* ioCore.Enabled: the core's LevelEnabler is its AtomicLevel.
CoreEnabled(core, lvl) == lvl >= levels[core.lvl]

\* multiCore.Enabled (and the sampler's, which it inherits): some core is enabled.
TeeEnabled(P, lvl) == \E i \in DOMAIN P.cores : CoreEnabled(P.cores[i], lvl)

\* Logger.check returns early for a disabled level below DPanic; core.Check
\* (sampler.Check, multiCore.Check) tests Enabled again.
CheckPasses(P, lvl) == TeeEnabled(P, lvl)

\* Mutant: a new window starts but the count is kept.
IncCheckKeepCount(c, tn) ==
    IF c.resetAt > tn THEN [n |-> c.n + 1, resetAt |-> c.resetAt]
    ELSE [n |-> c.n + 1, resetAt |-> tn + TickLen]

\* counter.IncCheckReset: count on inside the window, restart at 1 after it.
IncCheckReset(c, tn) ==
    IF c.resetAt > tn THEN [n |-> c.n + 1, resetAt |-> c.resetAt]
    ELSE [n |-> 1, resetAt |-> tn + TickLen]

\* Mutant: thereafter 0 is taken for "no further sampling".
SamplerPassZeroOpen(s, n) ==
    ~ (n > s.first /\ s.thereafter # 0 /\ (n - s.first) % s.thereafter # 0)

\* sampler.Check: the n-th entry of the window is dropped when
\* n > first && (thereafter == 0 || (n-first) % thereafter != 0).
SamplerPass(s, n) ==
    ~ (n > s.first /\ (s.thereafter = 0 \/ (n - s.first) % s.thereafter # 0))

CounterKey(lvl, msg) == << lvl, BucketOf[msg] >>

\* Mutant: the sampler counts the entry before the level is looked at.
SamplerCountsFirst(P, lvl) == P.sampler.on

\* sampler.Check returns before counting when the level is not enabled.
SamplerCounts(P, lvl) == P.sampler.on /\ CheckPasses(P, lvl)

\* The cores multiCore.Check adds the entry to.
Targets(P, lvl) == {i \in DOMAIN P.cores : CoreEnabled(P.cores[i], lvl)}

\* Mutant: the sampler wraps the first core only, the others are beside it in
\* the tee.
SampledTargetsFirstCore(P, lvl, n) ==
    {i \in Targets(P, lvl) : (i = 1 /\ P.sampler.on) => SamplerPass(P.sampler, n)}

\* The sampler wraps the tee of all the cores: one decision on the count n of
\* the entry's counter, then multiCore.Check.
SampledTargets(P, lvl, n) ==
    IF P.sampler.on => SamplerPass(P.sampler, n) THEN Targets(P, lvl) ELSE {}

\* The entry as a core writes it; Logger.check has added the stack to an entry
\* at or above the stacktrace level.
Record(h, core, lvl, msg) ==
    [lvl |-> lvl, msg |-> msg, fields |-> h.fields, enc |-> core.enc,
     stack |-> lvl >= pipes[h.pipe].stack]

\* The pairs counted since the counter of (lvl, msg) last restarted, and the
\* windows of the counters, after one more event of (lvl, msg) is counted.
OccAfter(p, lvl, msg) ==
    IF counts[p][CounterKey(lvl, msg)].resetAt > now
    THEN [occ[p] EXCEPT !.of[<<lvl, msg>>] = @ + 1]
    ELSE [of |-> [k \in DOMAIN occ[p].of |->
                    IF k = <<lvl, msg>> THEN 1
                    ELSE IF CounterKey(k[1], k[2]) = CounterKey(lvl, msg) THEN 0
                    ELSE occ[p].of[k]],
          windows |-> [occ[p].windows EXCEPT ![CounterKey(lvl, msg)] =
                          IF @ = 0 THEN 1 ELSE 2],
          below |-> occ[p].below]

RECURSIVE CountSum(_, _)
\* The events the counters of one sampler hold.
CountSum(cs, keys) ==
    IF keys = {} THEN 0
    ELSE LET k == CHOOSE x \in keys : TRUE IN cs[k].n + CountSum(cs, keys \ {k})

\* One logging call (Debug, Info, ... Panic) through logger h; cap bounds what
\* the sinks hold.
Emit(h, lvl, msg, cap) ==
    /\ h \in handles
    /\ h.pipe > 0
    /\ LET p == h.pipe
           P == pipes[p]
           key == CounterKey(lvl, msg)
           enabled == CheckPasses(P, lvl)
           shown == enabled /\ P.sampler.on
           counted == SamplerCounts(P, lvl)
           c1 == IncCheckReset(counts[p][key], now)
           tried == IF enabled THEN SampledTargets(P, lvl, c1.n) ELSE {}
           wrote == {i \in tried : P.cores[i].dest \notin failing}
       IN  /\ counted => CountSum([counts[p] EXCEPT ![key] = c1], CounterKeys) <= MaxCount
           /\ wrote # {} => TotalOut < cap
           /\ counts' = IF counted THEN [counts EXCEPT ![p][key] = c1] ELSE counts
           /\ occ' = IF shown THEN [occ EXCEPT ![p] = OccAfter(p, lvl, msg)]
                     ELSE IF P.sampler.on
                          THEN [occ EXCEPT ![p].below = @ \cup {<< lvl, msg >>}]
                          ELSE occ
           /\ out' = [out EXCEPT ![p] = [i \in DOMAIN P.cores |->
                        IF i \in wrote THEN Append(out[p][i], Record(h, P.cores[i], lvl, msg))
                        ELSE out[p][i]]]
           \* ioCore.Write syncs after writing an entry above ErrorLevel.
           /\ synced' = [synced EXCEPT ![p] = [i \in DOMAIN P.cores |->
                        IF i \in wrote /\ lvl > ErrorLevel THEN Len(out[p][i]) + 1
                        ELSE synced[p][i]]]
           /\ lastEmit' = [pipe |-> p, lvl |-> lvl, msg |-> msg, fields |-> h.fields,
                           thr |-> levels[P.level], n |-> IF counted THEN c1.n ELSE 0,
                           occ |-> IF shown THEN OccAfter(p, lvl, msg).of[<<lvl, msg>>] ELSE 0,
                           window |-> IF shown THEN OccAfter(p, lvl, msg).windows[key] ELSE 0,
                           before |-> counts[p][key],
                           tried |-> tried, wrote |-> wrote]
    /\ UNCHANGED << levels, pipes, failing, now, handles, globalLogger, globalLevel,
                    pending, ctxs, cancelled, watcher, flushes, lastSync, lastSet, setCalls, ret >>

\* A logging call through the no-op logger: NopCore is never enabled.
EmitNop(h, lvl, msg) ==
    /\ h \in handles
    /\ h.pipe = 0
    /\ lastEmit' = [pipe |-> 0, lvl |-> lvl, msg |-> msg, fields |-> h.fields,
                    thr |-> 0, n |-> 0, occ |-> 0, window |-> 0,
                    before |-> [n |-> 0, resetAt |-> 0],
                    tried |-> {}, wrote |-> {}]
    /\ UNCHANGED << levels, pipes, counts, occ, out, synced, failing, now, handles,
                    globalLogger, globalLevel, pending, ctxs, cancelled, watcher,
                    flushes, lastSync, lastSet, setCalls, ret >>

\* Mutant: the fields are added to the parent logger itself.
WithInPlace(h, fs) ==
    /\ h \in handles
    /\ h.pipe >= 0
    /\ Len(h.fields) + Len(fs) <= MaxFields
    /\ Cardinality(handles) < MaxHandles
    /\ handles' = (handles \ {h}) \cup
          {IF h.pipe = 0 THEN NopLogger ELSE [pipe |-> h.pipe, fields |-> h.fields \o fs]}
    /\ UNCHANGED << levels, pipes, counts, occ, out, synced, failing, now, globalLogger,
                    globalLevel, pending, ctxs, cancelled, watcher, flushes, lastEmit,
                    lastSync, lastSet, setCalls, ret >>

\* With (WithTraceID, WithFields, WithError, log.With): a new logger over the
\* same core whose fields are the parent's followed by the new ones.
With(h, fs) ==
    /\ h \in handles
    /\ h.pipe >= 0
    /\ Len(h.fields) + Len(fs) <= MaxFields
    /\ Cardinality(handles) < MaxHandles
    /\ handles' = handles \cup
          {IF h.pipe = 0 THEN NopLogger ELSE [pipe |-> h.pipe, fields |-> h.fields \o fs]}
    /\ UNCHANGED << levels, pipes, counts, occ, out, synced, failing, now, globalLogger,
                    globalLevel, pending, ctxs, cancelled, watcher, flushes, lastEmit,
                    lastSync, lastSet, setCalls, ret >>

(* ---------------- the level ---------------- *)
\* Mutant: the level is stored in a copy that no core reads.
SetLevelOnCopy(p, level) ==
    /\ p \in DOMAIN pipes
    /\ pipes[p].pkg = "pkg"
    /\ p \notin pending
    /\ lastSet' = [ctl |-> pipes[p].level, lvl |-> parseLevel(level), name |-> level]
    /\ UNCHANGED << levels, pipes, counts, occ, out, synced, failing, now, handles,
                    globalLogger, globalLevel, pending, ctxs, cancelled, watcher,
                    flushes, lastEmit, lastSync, ret,
                    setCalls >>

\* (*Logger).SetLevel of pkg/logger.
SetLevel(p, level) ==
    /\ p \in DOMAIN pipes
    /\ pipes[p].pkg = "pkg"
    /\ p \notin pending
    /\ levels' = [levels EXCEPT ![pipes[p].level] = parseLevel(level)]
    /\ lastSet' = [ctl |-> pipes[p].level, lvl |-> parseLevel(level), name |-> level]
    /\ UNCHANGED << pipes, counts, occ, out, synced, failing, now, handles, globalLogger,
                    globalLevel, pending, ctxs, cancelled, watcher, flushes, lastEmit,
                    lastSync, ret,
                    setCalls >>

\* SetGlobalLevel of the root package, once a New has registered.
SetGlobalLevel(level) ==
    /\ globalLevel # 0
    /\ levels' = [levels EXCEPT ![globalLevel] = parseLevel(level)]
    /\ lastSet' = [ctl |-> globalLevel, lvl |-> parseLevel(level), name |-> level]
    /\ UNCHANGED << pipes, counts, occ, out, synced, failing, now, handles, globalLogger,
                    globalLevel, pending, ctxs, cancelled, watcher, flushes, lastEmit,
                    lastSync, ret,
                    setCalls >>

\* SetLevel on the zap.AtomicLevel that NewWithLevel returned for pipeline p.
AtomicSetLevel(p, lvl) ==
    /\ p \in DOMAIN pipes
    /\ pipes[p].pkg = "root"
    /\ p \notin pending
    /\ levels' = [levels EXCEPT ![pipes[p].level] = lvl]
    /\ lastSet' = [ctl |-> pipes[p].level, lvl |-> lvl, name |-> ""]
    /\ UNCHANGED << pipes, counts, occ, out, synced, failing, now, handles, globalLogger,
                    globalLevel, pending, ctxs, cancelled, watcher, flushes, lastEmit,
                    lastSync, ret,
                    setCalls >>

\* A SetLevel call as two steps, so that calls overlap: the argument is parsed
\* (pkg/logger SetLevel on the logger of pipeline p) ...
SetLevelBegin(p, level) ==
    /\ p \in DOMAIN pipes
    /\ pipes[p].pkg = "pkg"
    /\ p \notin pending
    /\ Cardinality(setCalls.inflight) < MaxCalls
    /\ setCalls' = [inflight |-> setCalls.inflight \cup
                        {[ctl |-> pipes[p].level, lvl |-> parseLevel(level), name |-> level]},
                    passed |-> setCalls.passed \cup {<< pipes[p].level, parseLevel(level) >>}]
    /\ UNCHANGED << levels, pipes, counts, occ, out, synced, failing, now, handles,
                    globalLogger, globalLevel, pending, ctxs, cancelled, watcher,
                    flushes, lastEmit, lastSync, lastSet, ret >>

\* ... (SetGlobalLevel: globalLevel is read under the read lock) ...
SetGlobalLevelBegin(level) ==
    /\ globalLevel # 0
    /\ Cardinality(setCalls.inflight) < MaxCalls
    /\ setCalls' = [inflight |-> setCalls.inflight \cup
                        {[ctl |-> globalLevel, lvl |-> parseLevel(level), name |-> level]},
                    passed |-> setCalls.passed \cup {<< globalLevel, parseLevel(level) >>}]
    /\ UNCHANGED << levels, pipes, counts, occ, out, synced, failing, now, handles,
                    globalLogger, globalLevel, pending, ctxs, cancelled, watcher,
                    flushes, lastEmit, lastSync, lastSet, ret >>

\* Mutant: the 32-bit store is made as two 16-bit stores, and the level is
\* read between them.
SetLevelStoreTorn(call) ==
    /\ call \in setCalls.inflight
    /\ levels' = [levels EXCEPT ![call.ctl] = (@ \div 65536) * 65536 + (call.lvl % 65536)]
    /\ lastSet' = call
    /\ setCalls' = [setCalls EXCEPT !.inflight = @ \ {call}]
    /\ UNCHANGED << pipes, counts, occ, out, synced, failing, now, handles, globalLogger,
                    globalLevel, pending, ctxs, cancelled, watcher, flushes, lastEmit,
                    lastSync, ret >>

\* ... and AtomicLevel.SetLevel stores it: one atomic store of an int32.
SetLevelStore(call) ==
    /\ call \in setCalls.inflight
    /\ levels' = [levels EXCEPT ![call.ctl] = call.lvl]
    /\ lastSet' = call
    /\ setCalls' = [setCalls EXCEPT !.inflight = @ \ {call}]
    /\ UNCHANGED << pipes, counts, occ, out, synced, failing, now, handles, globalLogger,
                    globalLevel, pending, ctxs, cancelled, watcher, flushes, lastEmit,
                    lastSync, ret >>

\* GetLevel of pkg/logger, Level() of the AtomicLevel NewWithLevel or
\* GlobalLevel returned: one atomic load.
GetLevel(p) ==
    /\ p \in DOMAIN pipes
    /\ p \notin pending
    /\ ret' = [op |-> "GetLevel", pkg |-> pipes[p].pkg, ctx |-> 0, res |-> NilLogger,
               ctl |-> pipes[p].level, lvl |-> levels[pipes[p].level], panic |-> FALSE]
    /\ UNCHANGED << levels, pipes, counts, occ, out, synced, failing, now, handles,
                    globalLogger, globalLevel, pending, ctxs, cancelled, watcher,
                    flushes, lastEmit, lastSync, lastSet, setCalls >>

(* ---------------- flushing ---------------- *)
\* The io.Writer is wrapped by zapcore.AddSync, whose Sync does nothing; a
\* file's Sync fails when the destination fails.
SyncFails(core) == core.dest # "writer" /\ core.dest \in failing

\* Mutant: the sync stops at the first core that fails.
SyncAllStopAtFirst(p) ==
    [i \in DOMAIN pipes[p].cores |->
        IF \E j \in 1..i : SyncFails(pipes[p].cores[j]) THEN synced[p][i]
        ELSE Len(out[p][i])]

\* multiCore.Sync: every core is synced, the errors are combined.
SyncAll(p) ==
    [i \in DOMAIN pipes[p].cores |->
        IF SyncFails(pipes[p].cores[i]) THEN synced[p][i] ELSE Len(out[p][i])]

SyncErr(p) == \E i \in DOMAIN pipes[p].cores : SyncFails(pipes[p].cores[i])

\* Mutant: the flush writes the last record of every sink out again.
SyncRewrites(h) ==
    /\ h \in handles
    /\ h.pipe > 0
    /\ flushes[h.pipe].explicit < MaxFlush
    /\ out' = [out EXCEPT ![h.pipe] = [i \in DOMAIN out[h.pipe] |->
                 IF Len(out[h.pipe][i]) > synced[h.pipe][i] \/ Len(out[h.pipe][i]) = 0
                 THEN out[h.pipe][i]
                 ELSE Append(out[h.pipe][i], out[h.pipe][i][Len(out[h.pipe][i])])]]
    /\ synced' = [synced EXCEPT ![h.pipe] = SyncAll(h.pipe)]
    /\ flushes' = [flushes EXCEPT ![h.pipe].explicit = @ + 1]
    /\ lastSync' = [pipe |-> h.pipe, by |-> "caller", err |-> SyncErr(h.pipe),
                    before |-> out[h.pipe]]
    /\ UNCHANGED << levels, pipes, counts, occ, failing, now, handles, globalLogger,
                    globalLevel, pending, ctxs, cancelled, watcher, lastEmit, lastSet, setCalls, ret >>

\* logger.Sync() called by the program on logger h.
Sync(h) ==
    /\ h \in handles
    /\ h.pipe > 0
    /\ flushes[h.pipe].explicit < MaxFlush
    /\ synced' = [synced EXCEPT ![h.pipe] = SyncAll(h.pipe)]
    /\ flushes' = [flushes EXCEPT ![h.pipe].explicit = @ + 1]
    /\ lastSync' = [pipe |-> h.pipe, by |-> "caller", err |-> SyncErr(h.pipe),
                    before |-> out[h.pipe]]
    /\ UNCHANGED << levels, pipes, counts, occ, out, failing, now, handles, globalLogger,
                    globalLevel, pending, ctxs, cancelled, watcher, lastEmit, lastSet, setCalls, ret >>

(* ---------------- contexts ---------------- *)
RECURSIVE CtxDone(_)
\* ctx.Done() is closed when the context or one of its ancestors is cancelled.
CtxDone(c) ==
    IF c = 0 THEN FALSE
    ELSE c \in cancelled \/ CtxDone(ctxs[c].parent)

RECURSIVE CtxValue(_, _)
\* ctx.Value(ctxKey{}) for the key type of package pkg: the nearest value up
\* the chain, found = FALSE when the chain carries none.
CtxValue(c, pkg) ==
    IF c = 0 THEN [found |-> FALSE, val |-> NilLogger]
    ELSE IF ctxs[c].key = pkg THEN [found |-> TRUE, val |-> ctxs[c].val]
    ELSE CtxValue(ctxs[c].parent, pkg)

\* Mutant: the goroutine loops and waits for the signal again.
WatcherSyncAgain(p) ==
    /\ p \in DOMAIN pipes
    /\ watcher[p] = "waiting"
    /\ CtxDone(pipes[p].ctx)
    /\ flushes[p].watcher < MaxFlush
    /\ synced' = [synced EXCEPT ![p] = SyncAll(p)]
    /\ flushes' = [flushes EXCEPT ![p].watcher = @ + 1]
    /\ lastSync' = [pipe |-> p, by |-> "watcher", err |-> SyncErr(p), before |-> out[p]]
    /\ UNCHANGED << levels, pipes, counts, occ, out, failing, now, handles, globalLogger,
                    globalLevel, pending, ctxs, cancelled, watcher, lastEmit, lastSet, setCalls, ret >>

\* The shutdown goroutine: <-ctx.Done(); _ = logger.Sync(), then it ends.
WatcherSync(p) ==
    /\ p \in DOMAIN pipes
    /\ watcher[p] = "waiting"
    /\ CtxDone(pipes[p].ctx)
    /\ watcher' = [watcher EXCEPT ![p] = "done"]
    /\ synced' = [synced EXCEPT ![p] = SyncAll(p)]
    /\ flushes' = [flushes EXCEPT ![p].watcher = @ + 1]
    /\ lastSync' = [pipe |-> p, by |-> "watcher", err |-> SyncErr(p), before |-> out[p]]
    /\ UNCHANGED << levels, pipes, counts, occ, out, failing, now, handles, globalLogger,
                    globalLevel, pending, ctxs, cancelled, lastEmit, lastSet, setCalls, ret >>

\* context.WithCancel(parent).
WithCancel(parent) ==
    /\ parent \in DOMAIN ctxs
    /\ Len(ctxs) < MaxCtx
    /\ ctxs' = Append(ctxs, [parent |-> parent, key |-> "cancel", val |-> NilLogger])
    /\ UNCHANGED << levels, pipes, counts, occ, out, synced, failing, now, handles,
                    globalLogger, globalLevel, pending, cancelled, watcher, flushes,
                    lastEmit, lastSync, lastSet, setCalls, ret >>

\* The cancel function of a WithCancel context; calling it again changes nothing.
Cancel(c) ==
    /\ c \in DOMAIN ctxs
    /\ ctxs[c].key = "cancel"
    /\ cancelled' = cancelled \cup {c}
    /\ UNCHANGED << levels, pipes, counts, occ, out, synced, failing, now, handles,
                    globalLogger, globalLevel, pending, ctxs, watcher, flushes,
                    lastEmit, lastSync, lastSet, setCalls, ret >>

\* Mutant: attaching a logger to a context also makes it the default.
WithContextRegisters(pkg, parent, l) ==
    /\ parent \in DOMAIN ctxs
    /\ Len(ctxs) < MaxCtx
    /\ l \in handles \cup {NilLogger}
    /\ ctxs' = Append(ctxs, [parent |-> parent, key |-> pkg, val |-> l])
    /\ globalLogger' = [globalLogger EXCEPT ![pkg] = l]
    /\ UNCHANGED << levels, pipes, counts, occ, out, synced, failing, now, handles,
                    globalLevel, pending, cancelled, watcher, flushes,
                    lastEmit, lastSync, lastSet, setCalls, ret >>

\* WithContext(ctx, l): context.WithValue(ctx, ctxKey{}, l); l may be nil.
WithContext(pkg, parent, l) ==
    /\ parent \in DOMAIN ctxs
    /\ Len(ctxs) < MaxCtx
    /\ l \in handles \cup {NilLogger}
    /\ ctxs' = Append(ctxs, [parent |-> parent, key |-> pkg, val |-> l])
    /\ UNCHANGED << levels, pipes, counts, occ, out, synced, failing, now, handles,
                    globalLogger, globalLevel, pending, cancelled, watcher, flushes,
                    lastEmit, lastSync, lastSet, setCalls, ret >>

(* ---------------- the registry ---------------- *)
\* Global(): the registered logger, or zap.NewNop() when none is.
GlobalOf(pkg) == IF globalLogger[pkg] = NilLogger THEN NopLogger ELSE globalLogger[pkg]

\* Mutant: the registered logger is preferred to the one the context carries.
FromContextGlobalFirst(pkg, c) ==
    IF globalLogger[pkg] # NilLogger THEN globalLogger[pkg]
    ELSE IF CtxValue(c, pkg).found THEN CtxValue(c, pkg).val ELSE GlobalOf(pkg)

\* FromContext(ctx): the type assertion succeeds for every *zap.Logger stored
\* under the key, the nil pointer included.
FromContextOf(pkg, c) ==
    IF CtxValue(c, pkg).found THEN CtxValue(c, pkg).val ELSE GlobalOf(pkg)

Global(pkg) ==
    /\ ret' = [op |-> "Global", pkg |-> pkg, ctx |-> 0, res |-> GlobalOf(pkg),
               ctl |-> 0, lvl |-> 0, panic |-> FALSE]
    /\ handles' = handles \cup {GlobalOf(pkg)}
    /\ UNCHANGED << levels, pipes, counts, occ, out, synced, failing, now, globalLogger,
                    globalLevel, pending, ctxs, cancelled, watcher, flushes, lastEmit,
                    lastSync, lastSet, setCalls >>

\* SetGlobalLevel of the root package before any New has registered:
\* globalLevel is the zero zap.AtomicLevel, whose pointer to the level is nil,
\* and SetLevel stores through it: a nil pointer dereference, the call panics.
SetGlobalLevelUnset(level) ==
    /\ globalLevel = 0
    /\ ret' = [op |-> "SetGlobalLevel", pkg |-> "root", ctx |-> 0, res |-> GlobalOf("root"),
               ctl |-> 0, lvl |-> parseLevel(level), panic |-> TRUE]
    /\ UNCHANGED << levels, pipes, counts, occ, out, synced, failing, now, handles,
                    globalLogger, globalLevel, pending, ctxs, cancelled, watcher,
                    flushes, lastEmit, lastSync, lastSet, setCalls >>

\* GlobalLevel of the root package: the AtomicLevel registered with the default
\* logger, the zero AtomicLevel (0) before any New.
GlobalLevel ==
    /\ ret' = [op |-> "GlobalLevel", pkg |-> "root", ctx |-> 0, res |-> GlobalOf("root"),
               ctl |-> globalLevel, lvl |-> 0, panic |-> FALSE]
    /\ UNCHANGED << levels, pipes, counts, occ, out, synced, failing, now, handles,
                    globalLogger, globalLevel, pending, ctxs, cancelled, watcher,
                    flushes, lastEmit, lastSync, lastSet, setCalls >>

FromContext(pkg, c) ==
    /\ c \in DOMAIN ctxs
    /\ ret' = [op |-> "FromContext", pkg |-> pkg, ctx |-> c, res |-> FromContextOf(pkg, c),
               ctl |-> 0, lvl |-> 0, panic |-> FALSE]
    /\ handles' = handles \cup ({FromContextOf(pkg, c)} \ {NilLogger})
    /\ UNCHANGED << levels, pipes, counts, occ, out, synced, failing, now, globalLogger,
                    globalLevel, pending, ctxs, cancelled, watcher, flushes, lastEmit,
                    lastSync, lastSet, setCalls >>

(* ---------------- the environment ---------------- *)
\* Time passes.
Advance ==
    /\ now < MaxTime
    /\ now' = now + 1
    /\ UNCHANGED << levels, pipes, counts, occ, out, synced, failing, handles, globalLogger,
                    globalLevel, pending, ctxs, cancelled, watcher, flushes, lastEmit,
                    lastSync, lastSet, setCalls, ret >>

\* A destination starts to fail (a full disk, a closed pipe).
Fail(d) ==
    /\ failing = {}
    /\ \E p \in DOMAIN pipes : \E i \in DOMAIN pipes[p].cores : pipes[p].cores[i].dest = d
    /\ failing' = {d}
    /\ UNCHANGED << levels, pipes, counts, occ, out, synced, now, handles, globalLogger,
                    globalLevel, pending, ctxs, cancelled, watcher, flushes, lastEmit,
                    lastSync, lastSet, setCalls, ret >>

(* ---------------- inputs ---------------- *)
Cfg(level, env, export, paths, sampling) ==
    [Level |-> level, Environment |-> env, ExportPath |-> export, OutputPaths |-> paths,
     Sampling |-> sampling, DisableStacktrace |-> FALSE, StacktraceLevel |-> ""]

\* A configuration with the stacktrace settings given.
CfgStack(level, env, disable, stackLevel) ==
    [Cfg(level, env, "", <<>>, NoSampling) EXCEPT !.DisableStacktrace = disable,
                                                  !.StacktraceLevel = stackLevel]

Policy(initial, thereafter) == [Initial |-> initial, Thereafter |-> thereafter, set |-> TRUE]

\* Configurations of the root package: an export file in dev mode, an
\* export path that cannot be opened with a policy whose Initial is 0, local
\* mode with an export path.
RootCfgs ==
    { Cfg("debug", EnvDev, "/var/log/export.json", <<>>, NoSampling),
      Cfg("info", EnvProd, "/nodir/app.log", <<>>, Policy(0, 3)),
      Cfg("warn", EnvLocal, "/var/log/export.json", <<>>, NoSampling) }

\* Configurations of pkg/logger: no path and an unknown level name, a path
\* that cannot be opened next to one that can, only a path that cannot be
\* opened.
PkgCfgs ==
    { Cfg("verbose", "production", "", <<>>, NoSampling),
      Cfg("debug", "production", "", << "/nodir/app.log", "/var/log/app.log" >>, NoSampling),
      Cfg("warn", "development", "", << "/nodir/app.log" >>, Policy(0, 0)) }

SetLevelNames == {"error", "loud"}
SomeLevels == {InfoLevel, ErrorLevel, PanicLevel}
SomeMessages == {MsgOk}
SomeFields == { << <<"trace_id", "t1">>, <<"span_id", "s1">> >>, << <<"error", "boom">> >> }

(* ---------------- the pipeline specification ---------------- *)
Next ==
    \/ /\ Len(pipes) < MaxPipes
       /\ \E cfg \in RootCfgs, w \in BOOLEAN : NewWithLevel(1, "svc", cfg, w)
    \/ /\ Len(pipes) < MaxPipes
       /\ \E cfg \in RootCfgs, w \in BOOLEAN : New("root", 1, "svc", cfg, w)
    \/ /\ Len(pipes) < MaxPipes
       /\ \E cfg \in PkgCfgs, w \in BOOLEAN : New("pkg", 1, "svc", cfg, w)
    \/ \E h \in handles, lvl \in SomeLevels, msg \in SomeMessages : Emit(h, lvl, msg, MaxOut)
    \/ \E h \in handles, fs \in SomeFields : With(h, fs)
    \/ \E p \in DOMAIN pipes, level \in SetLevelNames : SetLevel(p, level)
    \/ \E level \in SetLevelNames : SetGlobalLevel(level)
    \/ \E p \in DOMAIN pipes, lvl \in {PanicLevel} : AtomicSetLevel(p, lvl)
    \/ Fail("writer")

Spec == Init /\ [][Next]_vars

(* ---------------- the sampler specification ---------------- *)
\* One pipeline of the root package over stdout and an injected writer, with
\* and without a sampling policy; events of two levels and two messages,
\* "asl" and "bea", which share a counter; time passes.
SamplerCfgs ==
    { Cfg("info", EnvLocal, "", <<>>, Policy(2, 3)),
      Cfg("info", EnvLocal, "", <<>>, Policy(1, 0)),
      Cfg("info", EnvLocal, "", <<>>, Policy(0, 3)),
      Cfg("info", EnvLocal, "", <<>>, NoSampling) }

SamplerEvents == { <<InfoLevel, MsgAsl>>, <<InfoLevel, MsgBea>>, <<WarnLevel, MsgAsl>> }

SamplerNext ==
    \/ /\ Len(pipes) < MaxSamplers
       /\ \E cfg \in SamplerCfgs : NewWithLevel(1, "svc", cfg, TRUE)
    \/ \E h \in handles, e \in SamplerEvents : Emit(h, e[1], e[2], MaxSampled)
    \/ Advance

SamplerSpec == Init /\ [][SamplerNext]_vars

(* ---------------- the shutdown specification ---------------- *)
\* One pipeline of either package built on the background context or on a
\* cancellable one; the program emits, flushes and cancels, a file may start
\* to fail, and the shutdown goroutine runs when it can.
FlushRootCfgs == { Cfg("info", EnvDev, "/var/log/export.json", <<>>, NoSampling) }
FlushPkgCfgs == { Cfg("info", "production", "", << "/var/log/app.log" >>, NoSampling) }
FlushLevels == {InfoLevel, PanicLevel}
FlushFiles == {"/var/log/export.json", "/var/log/app.log"}

FlushNext ==
    \/ /\ Len(pipes) < MaxPipes
       /\ \E c \in DOMAIN ctxs, cfg \in FlushRootCfgs : NewWithLevel(c, "svc", cfg, TRUE)
    \/ /\ Len(pipes) < MaxPipes
       /\ \E c \in DOMAIN ctxs, cfg \in FlushPkgCfgs : New("pkg", c, "svc", cfg, FALSE)
    \/ \E parent \in DOMAIN ctxs : WithCancel(parent)
    \/ \E c \in DOMAIN ctxs : Cancel(c)
    \/ \E h \in handles, lvl \in FlushLevels : Emit(h, lvl, MsgOk, MaxOut)
    \/ \E h \in handles : Sync(h)
    \/ \E p \in DOMAIN pipes : WatcherSync(p)
    \/ \E d \in FlushFiles : Fail(d)

\* The Go scheduler runs a runnable goroutine eventually: once the context is
\* done the shutdown goroutine of each pipeline takes its step.
FlushSpec ==
    Init /\ [][FlushNext]_vars /\ \A p \in 1..MaxPipes : WF_vars(WatcherSync(p))

(* ---------------- the registry specification ---------------- *)
\* Loggers of both packages are built and registered, New in two steps so
\* that two of them overlap, and NewWithLevel builds loggers that are never
\* registered; loggers (nil included) are attached to contexts and looked up
\* again.
RegRootCfgs == { Cfg("info", EnvLocal, "", <<>>, NoSampling) }
RegPkgCfgs == { Cfg("info", "production", "", <<>>, NoSampling) }
RegFields == { << <<"trace_id", "t1">>, <<"span_id", "s1">> >> }

RegistryNext ==
    \/ /\ Len(pipes) < MaxRegs
       /\ \E cfg \in RegRootCfgs : NewBegin("root", 1, "svc", cfg, FALSE)
    \/ /\ Len(pipes) < MaxRegs
       /\ \E cfg \in RegPkgCfgs : NewBegin("pkg", 1, "svc", cfg, FALSE)
    \/ /\ Len(pipes) < MaxRegs
       /\ \E cfg \in RegRootCfgs : NewWithLevel(1, "svc", cfg, FALSE)
    \/ \E p \in pending : NewRegister(p)
    \/ \E pkg \in Pkgs, parent \in DOMAIN ctxs, l \in handles \cup {NilLogger} :
          WithContext(pkg, parent, l)
    \/ \E pkg \in Pkgs, c \in DOMAIN ctxs : FromContext(pkg, c)
    \/ \E pkg \in Pkgs : Global(pkg)
    \/ \E h \in handles, fs \in RegFields : With(h, fs)
    \/ \E h \in handles : EmitNop(h, ErrorLevel, MsgOk)

RegistrySpec == Init /\ [][RegistryNext]_vars

(* ---------------- the fields specification ---------------- *)
\* One logger of either package; loggers are derived with fields whose keys
\* repeat a key bound before ("service" of the construction, "trace_id" of an
\* earlier derivation) and events are emitted through them.
FieldCfgs == { Cfg("info", EnvLocal, "", <<>>, NoSampling) }
FieldPkgCfgs == { Cfg("info", "development", "", <<>>, NoSampling) }
CollidingFields ==
    { << <<"service", "other">> >>, << <<"trace_id", "t1">> >>, << <<"trace_id", "t2">> >> }
FieldLevels == {InfoLevel, ErrorLevel}

FieldsNext ==
    \/ /\ Len(pipes) < MaxPipes
       /\ \E cfg \in FieldCfgs : NewWithLevel(1, "svc", cfg, FALSE)
    \/ /\ Len(pipes) < MaxPipes
       /\ \E cfg \in FieldPkgCfgs : New("pkg", 1, "svc", cfg, TRUE)
    \/ \E h \in handles, fs \in CollidingFields : With(h, fs)
    \/ \E h \in handles, lvl \in FieldLevels : Emit(h, lvl, MsgOk, MaxOut)

FieldsSpec == Init /\ [][FieldsNext]_vars

(* ---------------- the level specification ---------------- *)
\* One logger of either package built with any level name, recognised or
\* not, whose level is then set by name and read; events of the two lowest
\* levels are emitted.
LevelNames == {"debug", "info", "warn", "warning", "error", "dpanic", "panic", "fatal"}
UnknownNames == {"", "verbose", "DEBUG", "trace"}
LevelLevels == {DebugLevel, InfoLevel}

LevelNext ==
    \/ /\ Len(pipes) < MaxPipes
       /\ \E name \in LevelNames \cup UnknownNames :
             New("root", 1, "svc", Cfg(name, EnvLocal, "", <<>>, NoSampling), FALSE)
    \/ /\ Len(pipes) < MaxPipes
       /\ \E name \in LevelNames \cup UnknownNames :
             New("pkg", 1, "svc", Cfg(name, "production", "", <<>>, NoSampling), FALSE)
    \/ \E p \in DOMAIN pipes, name \in LevelNames \cup UnknownNames : SetLevel(p, name)
    \/ \E name \in LevelNames \cup UnknownNames : SetGlobalLevel(name)
    \/ \E h \in handles, lvl \in LevelLevels : Emit(h, lvl, MsgOk, 1)

LevelSpec == Init /\ [][LevelNext]_vars

(* ---------------- the environment specification ---------------- *)
\* One logger of the root package for every environment (the three modes and
\* an unknown one) and export path (none, a file, a file that cannot be
\* opened, "stdout"), with and without a writer; events around the threshold.
EnvNames == {EnvLocal, EnvDev, EnvProd, "staging"}
ExportPaths == {"", "/var/log/export.json", "/nodir/app.log", "stdout"}
EnvLevels == {DebugLevel, InfoLevel, ErrorLevel}

EnvNext ==
    \/ /\ Len(pipes) < MaxPipes
       /\ \E env \in EnvNames, path \in ExportPaths, w \in BOOLEAN :
             NewWithLevel(1, "svc", Cfg("info", env, path, <<>>, NoSampling), w)
    \/ /\ Len(pipes) < MaxPipes
       /\ \E env \in EnvNames, path \in ExportPaths :
             New("root", 1, "svc", Cfg("info", env, path, <<>>, NoSampling), FALSE)
    \/ \E h \in handles, lvl \in EnvLevels : Emit(h, lvl, MsgOk, MaxOut)

EnvSpec == Init /\ [][EnvNext]_vars

(* ---------------- the concurrent level specification ---------------- *)
\* One logger of either package; SetLevel calls overlap with each other, with
\* reads of the level and with emits.
ConcCfgLevels == {"info", "debug"}
ConcNames == {"debug", "error", "loud"}
ConcLevels == {DebugLevel, InfoLevel, ErrorLevel}

ConcNext ==
    \/ /\ Len(pipes) < MaxPipes
       /\ \E name \in ConcCfgLevels :
             New("root", 1, "svc", Cfg(name, EnvLocal, "", <<>>, NoSampling), FALSE)
    \/ /\ Len(pipes) < MaxPipes
       /\ \E name \in ConcCfgLevels :
             New("pkg", 1, "svc", Cfg(name, "production", "", <<>>, NoSampling), FALSE)
    \/ \E p \in DOMAIN pipes, name \in ConcNames : SetLevelBegin(p, name)
    \/ \E name \in ConcNames : SetGlobalLevelBegin(name)
    \/ \E call \in setCalls.inflight : SetLevelStore(call)
    \/ \E p \in DOMAIN pipes : GetLevel(p)
    \/ \E h \in handles, lvl \in ConcLevels : Emit(h, lvl, MsgOk, 1)

ConcSpec == Init /\ [][ConcNext]_vars

(* ---------------- the evaluation-order specification ---------------- *)
\* One sampling pipeline of either package; events at and below the threshold,
\* which the program lowers and raises; time passes.
OrderRootCfgs ==
    { Cfg("info", EnvDev, "/var/log/export.json", <<>>, Policy(1, 0)),
      Cfg("info", EnvLocal, "", <<>>, Policy(2, 3)) }
OrderPkgCfgs == { Cfg("info", "production", "", <<>>, Policy(1, 0)) }
OrderNames == {"debug", "warn"}
OrderEvents == { <<DebugLevel, MsgAsl>>, <<InfoLevel, MsgAsl>> }
MaxOrdered == 3

OrderNext ==
    \/ /\ Len(pipes) < MaxPipes
       /\ \E cfg \in OrderRootCfgs : New("root", 1, "svc", cfg, FALSE)
    \/ /\ Len(pipes) < MaxPipes
       /\ \E cfg \in OrderPkgCfgs : New("pkg", 1, "svc", cfg, TRUE)
    \/ \E h \in handles, e \in OrderEvents : Emit(h, e[1], e[2], MaxOrdered)
    \/ \E p \in DOMAIN pipes, level \in OrderNames : SetLevel(p, level)
    \/ \E level \in OrderNames : SetGlobalLevel(level)
    \/ Advance

OrderSpec == Init /\ [][OrderNext]_vars

(* ---------------- the fan-out specification ---------------- *)
\* One sampling pipeline of either package over two or three sinks, one of
\* which may start to fail; events of two messages that share a counter and of
\* two levels.
FanRootCfgs ==
    { Cfg("info", EnvDev, "/var/log/export.json", <<>>, Policy(1, 0)),
      Cfg("info", EnvProd, "/var/log/export.json", <<>>, Policy(2, 3)) }
FanPkgCfgs ==
    { Cfg("info", "production", "", << "stdout", "/var/log/app.log" >>, Policy(1, 2)) }
FanEvents == { <<InfoLevel, MsgAsl>>, <<InfoLevel, MsgBea>>, <<ErrorLevel, MsgAsl>> }
FanFiles == {"/var/log/export.json", "/var/log/app.log", "writer"}
MaxFanned == 6

FanNext ==
    \/ /\ Len(pipes) < MaxPipes
       /\ \E cfg \in FanRootCfgs : NewWithLevel(1, "svc", cfg, TRUE)
    \/ /\ Len(pipes) < MaxPipes
       /\ \E cfg \in FanPkgCfgs : New("pkg", 1, "svc", cfg, TRUE)
    \/ \E h \in handles, e \in FanEvents : Emit(h, e[1], e[2], MaxFanned)
    \/ \E d \in FanFiles : Fail(d)

FanSpec == Init /\ [][FanNext]_vars

(* ---------------- the default-logger specification ---------------- *)
\* New calls of both packages overlap with each other and with Global,
\* GlobalLevel, SetGlobalLevel and SetLevel; NewWithLevel builds loggers that are
\* not registered; loggers are attached to contexts, looked up, derived from
\* and written through.
DefRootCfgs == { Cfg("info", EnvLocal, "", <<>>, NoSampling) }
DefPkgCfgs == { Cfg("info", "production", "", <<>>, NoSampling) }
DefNames == {"debug"}
DefFields == { << <<"trace_id", "t1">>, <<"span_id", "s1">> >> }
MaxDefCtx == 2

DefaultNext ==
    \/ /\ Len(pipes) < MaxRegs
       /\ \E cfg \in DefRootCfgs : NewBegin("root", 1, "svc", cfg, FALSE)
    \/ /\ Len(pipes) < MaxRegs
       /\ \E cfg \in DefPkgCfgs : NewBegin("pkg", 1, "svc", cfg, FALSE)
    \/ /\ Len(pipes) < MaxRegs
       /\ \E cfg \in DefRootCfgs : NewWithLevel(1, "svc", cfg, FALSE)
    \/ \E p \in pending : NewRegister(p)
    \/ \E level \in DefNames : SetGlobalLevel(level)
    \/ \E level \in DefNames : SetGlobalLevelUnset(level)
    \/ \E p \in DOMAIN pipes, level \in DefNames : SetLevel(p, level)
    \/ GlobalLevel
    \/ \E pkg \in Pkgs : Global(pkg)
    \/ /\ Len(ctxs) < MaxDefCtx
       /\ \E pkg \in Pkgs, l \in handles \cup {NilLogger} : WithContext(pkg, 1, l)
    \/ \E pkg \in Pkgs, c \in DOMAIN ctxs : FromContext(pkg, c)
    \/ \E h \in handles, fs \in DefFields : With(h, fs)
    \/ \E h \in handles : Emit(h, DebugLevel, MsgOk, 1)

DefaultSpec == Init /\ [][DefaultNext]_vars

(* ---------------- the stacktrace specification ---------------- *)
\* One logger of either package whose configuration enables or disables the
\* stacktrace capture and names its level: a recognised name, none, or a
\* string that is no level name.
StackRootCfgs ==
    { CfgStack("info", EnvLocal, FALSE, "error"),
      CfgStack("info", EnvLocal, FALSE, "warn"),
      CfgStack("info", EnvLocal, FALSE, ""),
      CfgStack("info", EnvLocal, FALSE, "verbose"),
      CfgStack("info", EnvLocal, TRUE, "warn") }
StackPkgCfgs ==
    { CfgStack("info", "production", FALSE, ""),
      CfgStack("info", "production", FALSE, "ERROR"),
      CfgStack("info", "production", TRUE, "") }
StackLevels == {InfoLevel, WarnLevel, ErrorLevel}
StackFields == { << <<"trace_id", "t1">>, <<"span_id", "s1">> >> }

StackNext ==
    \/ /\ Len(pipes) < MaxPipes
       /\ \E cfg \in StackRootCfgs : New("root", 1, "svc", cfg, FALSE)
    \/ /\ Len(pipes) < MaxPipes
       /\ \E cfg \in StackRootCfgs : NewWithLevel(1, "svc", cfg, TRUE)
    \/ /\ Len(pipes) < MaxPipes
       /\ \E cfg \in StackPkgCfgs : New("pkg", 1, "svc", cfg, FALSE)
    \/ \E h \in handles, fs \in StackFields : With(h, fs)
    \/ \E h \in handles, lvl \in StackLevels : Emit(h, lvl, MsgOk, MaxOut)

StackSpec == Init /\ [][StackNext]_vars

(* ---------------- claims ---------------- *)
LastOf(seq) == seq[Len(seq)]

\* The record the last emit left at the end of sink i.
HoldsLastEmit(i) ==
    /\ Len(out[lastEmit.pipe][i]) > 0
    /\ LastOf(out[lastEmit.pipe][i]).lvl = lastEmit.lvl
    /\ LastOf(out[lastEmit.pipe][i]).msg = lastEmit.msg
    /\ LastOf(out[lastEmit.pipe][i]).fields = lastEmit.fields

\* A sink changes only by one record appended.
Appended(p, i) ==
    /\ Len(out'[p][i]) = Len(out[p][i]) + 1
    /\ SubSeq(out'[p][i], 1, Len(out[p][i])) = out[p][i]

\* C1: whatever level the pipeline's controller holds (after any sequence of
\* level changes), a record is appended to a sink only for an event at or
\* above that level, and with the sampler off an event at or above it is
\* handed to every constructed sink and written to each one that works.
C1_SeverityFilter ==
    /\ [][\A p \in DOMAIN out : \A i \in DOMAIN out[p] :
            out'[p][i] # out[p][i] =>
                /\ Appended(p, i)
                /\ LastOf(out'[p][i]).lvl >= levels[pipes[p].level]]_vars
    /\ [](lastEmit.pipe > 0 /\ lastEmit.lvl < lastEmit.thr
            => lastEmit.tried = {} /\ lastEmit.wrote = {})
    /\ [](lastEmit.pipe > 0 /\ lastEmit.lvl >= lastEmit.thr
              /\ ~ pipes[lastEmit.pipe].sampler.on
            => \A i \in DOMAIN pipes[lastEmit.pipe].cores :
                  /\ i \in lastEmit.tried
                  /\ pipes[lastEmit.pipe].cores[i].dest \notin failing
                       => i \in lastEmit.wrote /\ HoldsLastEmit(i))

\* An event at exactly the level a level change set, written to two sinks.
C1_Witness ==
    /\ lastEmit.pipe > 0
    /\ lastSet.ctl = pipes[lastEmit.pipe].level
    /\ lastSet.lvl = ErrorLevel
    /\ lastEmit.thr = ErrorLevel
    /\ lastEmit.lvl = ErrorLevel
    /\ Cardinality(lastEmit.wrote) >= 2
    /\ \A i \in lastEmit.wrote : HoldsLastEmit(i)

\* C2: the threshold is shared by reference.  Every sink of a pipeline reads
\* the pipeline's one controller, and once a level change has set L on it the
\* next emit through any logger of the pipeline (the parent, a derived one, a
\* sibling) is handed to every sink when its level is at or above L and to
\* none when it is below.
C2_SharedThreshold ==
    /\ [](\A p \in DOMAIN pipes : \A i \in DOMAIN pipes[p].cores :
             pipes[p].cores[i].lvl = pipes[p].level)
    /\ [][(/\ lastEmit' # lastEmit
           /\ lastEmit'.pipe > 0
           /\ lastSet.ctl = pipes[lastEmit'.pipe].level
           /\ ~ pipes[lastEmit'.pipe].sampler.on)
          => \A i \in DOMAIN pipes[lastEmit'.pipe].cores :
                i \in lastEmit'.tried <=> lastEmit'.lvl >= lastSet.lvl]_vars

\* An Info event through a derived logger, after the level was set to Error:
\* none of the three sinks gets it.
C2_Witness ==
    /\ lastEmit.pipe > 0
    /\ Len(lastEmit.fields) >= 2
    /\ lastSet.ctl = pipes[lastEmit.pipe].level
    /\ lastSet.lvl = ErrorLevel
    /\ lastEmit.thr = ErrorLevel
    /\ lastEmit.lvl = InfoLevel
    /\ Len(pipes[lastEmit.pipe].cores) >= 3
    /\ lastEmit.tried = {}

\* A destination of the configuration that could not be opened.
FailedOpen(P) ==
    IF P.pkg = "pkg"
    THEN \E k \in DOMAIN P.cfg.OutputPaths : OpenDest(P.cfg.OutputPaths[k]) = ""
    ELSE /\ P.cfg.ExportPath # ""
         /\ P.cfg.Environment \in {EnvDev, EnvProd}
         /\ OpenDest(P.cfg.ExportPath) = ""

HasSink(P, dest) == \E i \in DOMAIN P.cores : P.cores[i].dest = dest

\* C10: a destination that cannot be opened is left out and nothing else is
\* lost.  The pipeline exists and its logger is returned, no sink stands for
\* the failed destination, every destination that opens and the injected
\* writer have their sink, and an event at or above the threshold is written
\* to every such sink that works.
C10_OpenFailureIsolated ==
    /\ \A p \in DOMAIN pipes :
          /\ p \notin pending => HandleOf(p) \in handles
          /\ \A i \in DOMAIN pipes[p].cores :
                /\ pipes[p].cores[i] # NoCore
                /\ pipes[p].cores[i].dest \notin UnwritablePaths \cup {""}
          /\ pipes[p].w => HasSink(pipes[p], "writer")
          /\ pipes[p].pkg = "pkg" =>
                \A k \in DOMAIN pipes[p].cfg.OutputPaths :
                    OpenDest(pipes[p].cfg.OutputPaths[k]) # ""
                        => HasSink(pipes[p], OpenDest(pipes[p].cfg.OutputPaths[k]))
          /\ pipes[p].pkg = "root" => HasSink(pipes[p], "stdout")
    /\ (/\ lastEmit.pipe > 0
        /\ FailedOpen(pipes[lastEmit.pipe])
        /\ lastEmit.lvl >= lastEmit.thr
        /\ ~ pipes[lastEmit.pipe].sampler.on)
       => \A i \in DOMAIN pipes[lastEmit.pipe].cores :
             pipes[lastEmit.pipe].cores[i].dest \notin failing
                => i \in lastEmit.wrote /\ HoldsLastEmit(i)

\* A pkg/logger pipeline of which one output path failed to open, and an event
\* written to its file sink and to the injected writer.
C10_Witness ==
    /\ lastEmit.pipe > 0
    /\ pipes[lastEmit.pipe].pkg = "pkg"
    /\ FailedOpen(pipes[lastEmit.pipe])
    /\ HasSink(pipes[lastEmit.pipe], "/var/log/app.log")
    /\ HasSink(pipes[lastEmit.pipe], "writer")
    /\ lastEmit.wrote = DOMAIN pipes[lastEmit.pipe].cores
    /\ \A i \in lastEmit.wrote : HoldsLastEmit(i)

\* The last emit went through a sampler, which counted it.
Counted == lastEmit.pipe > 0 /\ lastEmit.n > 0

\* The sampler let the last emit through to every sink of the pipeline.
Delivered ==
    /\ lastEmit.tried = DOMAIN pipes[lastEmit.pipe].cores
    /\ \A i \in lastEmit.tried :
          pipes[lastEmit.pipe].cores[i].dest \notin failing
              => i \in lastEmit.wrote /\ HoldsLastEmit(i)

\* The sampler dropped the last emit.
Dropped == lastEmit.tried = {} /\ lastEmit.wrote = {}

\* The decision rule on a count n.
RuleEmits(n, initial, thereafter) ==
    n <= initial \/ (thereafter # 0 /\ (n - initial) % thereafter = 0)

\* The pairs (level, message) that counter key counts.
PairsOf(key) == {k \in EmitLevels \X Messages : CounterKey(k[1], k[2]) = key}

RECURSIVE OccSum(_, _)
OccSum(f, ks) ==
    IF ks = {} THEN 0
    ELSE LET k == CHOOSE x \in ks : TRUE IN f[k] + OccSum(f, ks \ {k})

Restarted == Counted /\ lastEmit.before.n > 0 /\ lastEmit.n = 1

NoPolicy(P) == ~ P.cfg.Sampling.set \/ P.cfg.Sampling.Initial = 0

\* C5: with no policy, or with a policy whose initial is 0, nothing is sampled:
\* no event is counted, and every event at or above the threshold is handed
\* to every sink and written to each one that works, whatever thereafter is
\* and however many identical events the window holds.
C5_PassThrough ==
    /\ \A p \in DOMAIN pipes : NoPolicy(pipes[p]) =>
          /\ ~ pipes[p].sampler.on
          /\ counts[p] = FreshCounts
    /\ (lastEmit.pipe > 0 /\ NoPolicy(pipes[lastEmit.pipe]) /\ lastEmit.lvl >= lastEmit.thr)
          => lastEmit.n = 0 /\ Delivered

\* Four identical events in a row under the policy {0, 3}: all four are on
\* both sinks.
C5_Witness ==
    /\ lastEmit.pipe > 0
    /\ pipes[lastEmit.pipe].cfg.Sampling = Policy(0, 3)
    /\ now = 0
    /\ Delivered
    /\ \A i \in DOMAIN pipes[lastEmit.pipe].cores :
          /\ Len(out[lastEmit.pipe][i]) = 4
          /\ \A j \in 1..4 : out[lastEmit.pipe][i][j].msg = lastEmit.msg
                               /\ out[lastEmit.pipe][i][j].lvl = lastEmit.lvl

\* The cancellable contexts on the chain of context c that were cancelled.
RECURSIVE CancelledAbove(_)
CancelledAbove(c) ==
    IF c = 0 THEN {}
    ELSE (IF c \in cancelled THEN {c} ELSE {}) \cup CancelledAbove(ctxs[c].parent)

\* C6: once the context given to the construction is done, the shutdown
\* goroutine of the pipeline eventually flushes it, once: it never flushes
\* twice, however many cancellations make the context done, and it never
\* flushes before the context is done.
C6_ShutdownFlushOnce ==
    /\ \A p \in 1..MaxPipes :
          (p \in DOMAIN pipes /\ CtxDone(pipes[p].ctx))
              ~> (p \in DOMAIN pipes /\ watcher[p] = "done" /\ flushes[p].watcher = 1)
    /\ [](\A p \in DOMAIN pipes :
             /\ flushes[p].watcher <= 1
             /\ flushes[p].watcher = 1 <=> watcher[p] = "done"
             /\ flushes[p].watcher = 1 => CtxDone(pipes[p].ctx))
    /\ [][\A p \in DOMAIN pipes :
             flushes'[p].watcher # flushes[p].watcher =>
                 /\ CtxDone(pipes[p].ctx)
                 /\ flushes[p].watcher = 0
                 /\ flushes'[p].watcher = 1
                 /\ synced'[p] = SyncAll(p)]_vars

\* A pipeline built on a context that is done twice over (its own
\* cancellation and its parent's): the goroutine has flushed once, and what
\* the sinks hold is synced.
C6_Witness ==
    \E p \in DOMAIN pipes :
        /\ Cardinality(CancelledAbove(pipes[p].ctx)) = 2
        /\ watcher[p] = "done"
        /\ flushes[p].watcher = 1
        /\ failing = {}
        /\ \A i \in DOMAIN out[p] : Len(out[p][i]) > 0 /\ synced[p][i] = Len(out[p][i])

\* C7: a flush, by the program or by the shutdown goroutine, writes nothing:
\* the sinks hold after it what they held before, a second flush with no emit
\* in between changes nothing at all, and a flush of working destinations
\* returns no error, the first time or again.  A sink changes only outside a
\* flush, by one record appended: no record is written twice.
C7_FlushIdempotent ==
    /\ [][\A p \in DOMAIN pipes : flushes'[p] # flushes[p] => out'[p] = out[p]]_vars
    /\ [][\A p \in DOMAIN pipes :
             (flushes'[p] # flushes[p] /\ lastSync.pipe = p /\ out[p] = lastSync.before)
                 => synced'[p] = synced[p] /\ lastSync'.before = lastSync.before]_vars
    /\ [][\A p \in DOMAIN out : \A i \in DOMAIN out[p] :
             out'[p][i] # out[p][i] => Appended(p, i) /\ flushes'[p] = flushes[p]]_vars
    /\ [](lastSync.pipe > 0 /\ failing = {} => ~ lastSync.err)

\* The goroutine's flush and then an explicit one, after emits: no error, and
\* the sinks as they were before it.
C7_Witness ==
    /\ lastSync.pipe > 0
    /\ lastSync.by = "caller"
    /\ ~ lastSync.err
    /\ flushes[lastSync.pipe].watcher = 1
    /\ flushes[lastSync.pipe].explicit >= 1
    /\ out[lastSync.pipe] = lastSync.before
    /\ \A i \in DOMAIN out[lastSync.pipe] :
          /\ Len(out[lastSync.pipe][i]) = 2
          /\ synced[lastSync.pipe][i] = 2

\* The contexts of the chain of c, c included.
RECURSIVE Ancestors(_)
Ancestors(c) == IF c = 0 THEN {} ELSE {c} \cup Ancestors(ctxs[c].parent)

\* The contexts of the chain to which WithContext of package pkg attached a logger.
Attached(pkg, c) == {a \in Ancestors(c) : ctxs[a].key = pkg}

\* The innermost of them: a context is made after its parent.
Nearest(pkg, c) == CHOOSE a \in Attached(pkg, c) : \A b \in Attached(pkg, c) : b <= a

\* The pipelines a New of package pkg has registered.
Registered(pkg) ==
    {p \in DOMAIN pipes : pipes[p].pkg = pkg /\ pipes[p].via = "New" /\ p \notin pending}

\* C8: FromContext returns the logger that the innermost WithContext of the
\* chain attached, if there is one; otherwise the logger registered by the
\* New that registered last; otherwise, no New having registered, the no-op
\* logger, through which an emit writes nothing.
C8_ResolutionOrder ==
    /\ [][(ret' # ret /\ ret'.op = "FromContext") =>
             ret'.res = IF Attached(ret'.pkg, ret'.ctx) # {}
                        THEN ctxs[Nearest(ret'.pkg, ret'.ctx)].val
                        ELSE IF Registered(ret'.pkg) # {} THEN globalLogger[ret'.pkg]
                        ELSE NopLogger]_vars
    /\ [][\A pkg \in Pkgs : globalLogger'[pkg] # globalLogger[pkg] =>
             \E p \in pending :
                 /\ p \notin pending'
                 /\ pipes[p].pkg = pkg
                 /\ globalLogger'[pkg] = HandleOf(p)]_vars
    /\ [](\A pkg \in Pkgs : globalLogger[pkg] = NilLogger <=> Registered(pkg) = {})
    /\ [][(lastEmit' # lastEmit /\ lastEmit'.pipe = 0) =>
             out' = out /\ lastEmit'.tried = {} /\ lastEmit'.wrote = {}]_vars

\* A lookup through a context of the other package's key whose parent carries
\* a logger, while New has registered another one: the attached one is returned.
C8_Witness ==
    /\ ret.op = "FromContext"
    /\ ret.ctx = 3
    /\ ctxs[3].key \in Pkgs \ {ret.pkg}
    /\ ctxs[2].key = ret.pkg
    /\ ret.res = ctxs[2].val
    /\ ret.res.pipe > 0
    /\ globalLogger[ret.pkg] \notin {NilLogger, ret.res}

\* C9: FromContext and Global never return the nil logger, whatever was
\* attached to the context.
C9_NeverNil == ret.op # "" => ret.res # NilLogger

\* The destinations of the configuration that open.
Resolved(P) ==
    IF P.pkg = "pkg"
    THEN {OpenDest(P.cfg.OutputPaths[k]) : k \in DOMAIN P.cfg.OutputPaths} \ {""}
    ELSE IF P.cfg.ExportPath # "" /\ P.cfg.Environment \in {EnvDev, EnvProd}
         THEN {OpenDest(P.cfg.ExportPath)} \ {""}
         ELSE {}

\* C11: a constructed pipeline has at least one sink, each of them a real one,
\* and a pipeline none of whose configured destinations opens and that was
\* given no writer has exactly one sink, on standard output.
C11_NeverZeroSinks ==
    \A p \in DOMAIN pipes :
        /\ Len(pipes[p].cores) >= 1
        /\ DOMAIN out[p] = DOMAIN pipes[p].cores
        /\ \A i \in DOMAIN pipes[p].cores : IsCore(pipes[p].cores[i])
        /\ (Resolved(pipes[p]) = {} /\ ~ pipes[p].w)
              => Len(pipes[p].cores) = 1 /\ pipes[p].cores[1].dest = "stdout"

\* A pkg/logger pipeline whose only output path does not open, without a
\* writer: an event was written to its one sink, standard output.
C11_Witness ==
    /\ lastEmit.pipe > 0
    /\ pipes[lastEmit.pipe].pkg = "pkg"
    /\ Len(pipes[lastEmit.pipe].cfg.OutputPaths) = 1
    /\ FailedOpen(pipes[lastEmit.pipe])
    /\ ~ pipes[lastEmit.pipe].w
    /\ Len(pipes[lastEmit.pipe].cores) = 1
    /\ pipes[lastEmit.pipe].cores[1].dest = "stdout"
    /\ lastEmit.wrote = {1}
    /\ HoldsLastEmit(1)

\* The sinks of pipeline p whose destination fails.
FailingSinks(p) == {i \in DOMAIN pipes[p].cores : pipes[p].cores[i].dest \in failing}

\* C12: a failing sink does not keep an event or a flush from the others.  An
\* emit that passes the threshold is tried on every sink and its record is
\* appended to every sink but the failing ones, which are the ones reported;
\* a flush syncs every sink whose sync works and returns an error exactly when
\* the sync of some sink failed.
C12_FailureIsolated ==
    /\ [][(lastEmit' # lastEmit /\ lastEmit'.pipe > 0 /\ lastEmit'.tried # {}) =>
             LET p == lastEmit'.pipe IN
             /\ lastEmit'.tried = DOMAIN pipes[p].cores
             /\ lastEmit'.tried \ lastEmit'.wrote = FailingSinks(p)
             /\ \A i \in DOMAIN pipes[p].cores :
                   IF i \in FailingSinks(p) THEN out'[p][i] = out[p][i]
                   ELSE Appended(p, i) /\ LastOf(out'[p][i]).msg = lastEmit'.msg]_vars
    /\ [][\A p \in DOMAIN pipes : flushes'[p] # flushes[p] =>
             /\ \A i \in DOMAIN pipes[p].cores :
                   synced'[p][i] = IF SyncFails(pipes[p].cores[i]) THEN synced[p][i]
                                   ELSE Len(out[p][i])
             /\ lastSync'.pipe = p
             /\ lastSync'.err <=> \E i \in DOMAIN pipes[p].cores : SyncFails(pipes[p].cores[i])]_vars

\* The export file of a three-sink pipeline fails: the event is on the console
\* and on the writer, not on the file, and the caller's flush syncs those two
\* and returns an error.
C12_Witness ==
    /\ lastEmit.pipe > 0
    /\ lastSync.pipe = lastEmit.pipe
    /\ lastSync.by = "caller"
    /\ lastSync.err
    /\ lastSync.before = out[lastEmit.pipe]
    /\ Len(pipes[lastEmit.pipe].cores) = 3
    /\ FailingSinks(lastEmit.pipe) = {2}
    /\ lastEmit.tried = {1, 2, 3}
    /\ lastEmit.wrote = {1, 3}
    /\ lastEmit.lvl = InfoLevel
    /\ HoldsLastEmit(1) /\ HoldsLastEmit(3)
    /\ Len(out[lastEmit.pipe][2]) < Len(out[lastEmit.pipe][1])
    /\ synced[lastEmit.pipe][1] = Len(out[lastEmit.pipe][1])
    /\ synced[lastEmit.pipe][3] = Len(out[lastEmit.pipe][3])

\* The keys of a sequence of fields.
KeysOf(fs) == {fs[j][1] : j \in DOMAIN fs}

\* Logger h was derived from logger g by one With.
DerivedFrom(h, g) ==
    /\ h.pipe = g.pipe
    /\ Len(h.fields) > Len(g.fields)
    /\ SubSeq(h.fields, 1, Len(g.fields)) = g.fields

\* C13: deriving leaves the parent as it was.  No step changes or removes a
\* logger the program holds, the logger a construction returned keeps exactly
\* the fields it was built with, a record carries exactly the fields of the
\* logger it was emitted through, and so an event through one derived logger
\* has none of the fields bound only on a sibling.
C13_DerivingKeepsParent ==
    /\ [][\A h \in handles : h \in handles']_vars
    /\ [](\A p \in DOMAIN pipes : p \notin pending =>
             /\ HandleOf(p) \in handles
             /\ HandleOf(p).fields = buildOptions("svc"))
    /\ [][\A p \in DOMAIN out : \A i \in DOMAIN out[p] :
             out'[p][i] # out[p][i] =>
                 /\ [pipe |-> p, fields |-> LastOf(out'[p][i]).fields] \in handles
                 /\ LastOf(out'[p][i]).fields = lastEmit'.fields]_vars
    /\ [](\A h \in handles : h.pipe > 0 =>
             \/ h = HandleOf(h.pipe)
             \/ \E g \in handles : DerivedFrom(h, g))

\* Two siblings derived from the constructed logger, one with the trace
\* fields and one with the error; after an event through the first, an event
\* through the parent carries the service field only.
C13_Witness ==
    /\ lastEmit.pipe > 0
    /\ lastEmit.fields = buildOptions("svc")
    /\ lastEmit.wrote # {}
    /\ \A i \in lastEmit.wrote : HoldsLastEmit(i)
    /\ Len(out[lastEmit.pipe][1]) = 2
    /\ "trace_id" \in KeysOf(out[lastEmit.pipe][1][1].fields)
    /\ KeysOf(out[lastEmit.pipe][1][2].fields) = {"service"}
    /\ \E h1, h2 \in handles :
          /\ h1.pipe = lastEmit.pipe /\ h2.pipe = lastEmit.pipe
          /\ "trace_id" \in KeysOf(h1.fields) /\ "error" \notin KeysOf(h1.fields)
          /\ "error" \in KeysOf(h2.fields) /\ "trace_id" \notin KeysOf(h2.fields)

\* The value bound last to key k in the fields fs.
LastBound(fs, k) ==
    fs[CHOOSE a \in DOMAIN fs : fs[a][1] = k /\ \A b \in DOMAIN fs : fs[b][1] = k => b <= a][2]

\* C14: a record carries one value for each key, the one bound last on the
\* way from the constructed logger to the logger it was emitted through.
C14_NewValueWins ==
    \A p \in DOMAIN out : \A i \in DOMAIN out[p] : \A j \in DOMAIN out[p][i] :
        LET fs == out[p][i][j].fields IN
        \A a \in DOMAIN fs :
            /\ \A b \in DOMAIN fs : fs[a][1] = fs[b][1] => a = b
            /\ fs[a][2] = LastBound(fs, fs[a][1])

\* The pipelines that register in this step.
Registering == pending \ pending'

\* C15: the registration is last-writer-wins.  A step in which a New of a
\* package registers makes that New's logger the package's default, every
\* other step leaves the default alone, so that after any number of New calls,
\* overlapping or not, the default is the logger of the one that registered
\* last; the default is nil (Global then returns the no-op logger) or the
\* logger of a pipeline whose New has registered, never one still under
\* construction or built by NewWithLevel alone.
C15_LastWriterWins ==
    /\ [][\A pkg \in Pkgs :
             IF \E p \in Registering : pipes[p].pkg = pkg
             THEN \E p \in Registering : pipes[p].pkg = pkg /\ globalLogger'[pkg] = HandleOf(p)
             ELSE globalLogger'[pkg] = globalLogger[pkg]]_vars
    /\ [](\A pkg \in Pkgs :
             \/ globalLogger[pkg] = NilLogger /\ Registered(pkg) = {}
             \/ \E p \in Registered(pkg) : globalLogger[pkg] = HandleOf(p))
    /\ [][(ret' # ret /\ ret'.op = "Global") =>
             /\ ret'.res = IF globalLogger[ret'.pkg] = NilLogger THEN NopLogger
                           ELSE globalLogger[ret'.pkg]
             /\ ret'.res = NopLogger \/ ret'.res.pipe \in Registered(ret'.pkg)]_vars

\* Two New calls of the root package overlapped: the one that began first
\* registered last, and Global returns its logger.
C15_Witness ==
    /\ Len(pipes) = 2
    /\ pending = {}
    /\ pipes[1].pkg = "root" /\ pipes[2].pkg = "root"
    /\ pipes[1].via = "New" /\ pipes[2].via = "New"
    /\ globalLogger["root"] = HandleOf(1)
    /\ globalLevel = pipes[1].level
    /\ ret.op = "Global"
    /\ ret.pkg = "root"
    /\ ret.res = HandleOf(1)

\* The severity of each recognised level name.
SeverityOf ==
    [debug |-> DebugLevel, info |-> InfoLevel, warn |-> WarnLevel, warning |-> WarnLevel,
     error |-> ErrorLevel, dpanic |-> DPanicLevel, panic |-> PanicLevel, fatal |-> FatalLevel]

\* The threshold a level string stands for: info for one that is not recognised.
ThresholdFor(name) == IF name \in DOMAIN SeverityOf THEN SeverityOf[name] ELSE InfoLevel

\* C16: a construction with any level string succeeds and starts with the
\* threshold the string stands for, info when the string is not recognised;
\* SetLevel and SetGlobalLevel set the threshold the same way; the next event
\* is filtered by that threshold.
C16_UnknownLevelIsInfo ==
    /\ [][Len(pipes') > Len(pipes) =>
             /\ Len(pipes') = Len(pipes) + 1
             /\ levels'[pipes'[Len(pipes')].level] = ThresholdFor(pipes'[Len(pipes')].cfg.Level)
             /\ [pipe |-> Len(pipes'), fields |-> pipes'[Len(pipes')].fields] \in handles']_vars
    /\ [][lastSet' # lastSet =>
             /\ lastSet'.lvl = ThresholdFor(lastSet'.name)
             /\ levels'[lastSet'.ctl] = ThresholdFor(lastSet'.name)]_vars
    /\ [][(lastEmit' # lastEmit /\ lastEmit'.pipe > 0 /\ lastSet.ctl = pipes[lastEmit'.pipe].level) =>
             (lastEmit'.wrote # {} <=> lastEmit'.lvl >= ThresholdFor(lastSet.name))]_vars

\* The level of a logger built with "debug" was set with the string "DEBUG",
\* which is not recognised: the threshold is info and a debug event is not
\* written.
C16_Witness ==
    /\ lastEmit.pipe > 0
    /\ pipes[lastEmit.pipe].cfg.Level = "debug"
    /\ lastSet.ctl = pipes[lastEmit.pipe].level
    /\ lastSet.name = "DEBUG"
    /\ levels[lastSet.ctl] = InfoLevel
    /\ lastEmit.thr = InfoLevel
    /\ lastEmit.lvl = DebugLevel
    /\ lastEmit.wrote = {}

\* The machine-readable sinks of a pipeline.
JsonSinks(P) == {i \in DOMAIN P.cores : P.cores[i].enc = "json"}

\* The configuration asks for an export that can be made.
Exports(P) ==
    /\ P.cfg.Environment \in {EnvDev, EnvProd}
    /\ P.cfg.ExportPath # ""
    /\ OpenDest(P.cfg.ExportPath) # ""

\* C17: the first sink of a root-package pipeline is the human-readable one on
\* standard output.  In local mode no sink is machine-readable, whatever the
\* export path; in dev or prod mode with an export path that opens there is
\* exactly one machine-readable sink, on that path, next to the
\* human-readable one, and an event at or above the threshold is written to
\* both, in the encoding of each.
C17_SinksByEnvironment ==
    /\ \A p \in DOMAIN pipes : pipes[p].pkg = "root" =>
          /\ pipes[p].cores[1] = [dest |-> "stdout", enc |-> "console",
                                  lvl |-> pipes[p].level]
          /\ pipes[p].cfg.Environment = EnvLocal => JsonSinks(pipes[p]) = {}
          /\ Exports(pipes[p]) =>
                /\ JsonSinks(pipes[p]) = {2}
                /\ pipes[p].cores[2].dest = OpenDest(pipes[p].cfg.ExportPath)
          /\ \A i \in DOMAIN out[p] : \A j \in DOMAIN out[p][i] :
                out[p][i][j].enc = pipes[p].cores[i].enc
    /\ (/\ lastEmit.pipe > 0
        /\ pipes[lastEmit.pipe].pkg = "root"
        /\ Exports(pipes[lastEmit.pipe])
        /\ lastEmit.lvl >= lastEmit.thr)
       => /\ {1, 2} \subseteq lastEmit.wrote
          /\ HoldsLastEmit(1) /\ LastOf(out[lastEmit.pipe][1]).enc = "console"
          /\ HoldsLastEmit(2) /\ LastOf(out[lastEmit.pipe][2]).enc = "json"

\* A prod pipeline with an export file: an Error event is on standard output in
\* the console encoding and in the file in JSON.
C17_Witness ==
    /\ lastEmit.pipe > 0
    /\ pipes[lastEmit.pipe].cfg.Environment = EnvProd
    /\ pipes[lastEmit.pipe].cfg.ExportPath = "/var/log/export.json"
    /\ lastEmit.lvl = ErrorLevel
    /\ {1, 2} \subseteq lastEmit.wrote
    /\ LastOf(out[lastEmit.pipe][1]).enc = "console"
    /\ LastOf(out[lastEmit.pipe][2]).enc = "json"
    /\ pipes[lastEmit.pipe].cores[2].dest = "/var/log/export.json"

\* The levels the AtomicLevel ctl was constructed with.
InitialLevels(ctl) ==
    { ThresholdFor(pipes[p].cfg.Level) : p \in { q \in DOMAIN pipes : pipes[q].level = ctl } }

\* The levels a read of ctl may return: the initial one, or one passed to a
\* SetLevel call that has begun.
AllowedLevels(ctl) ==
    InitialLevels(ctl) \cup { c[2] : c \in { d \in setCalls.passed : d[1] = ctl } }

\* C18: under any interleaving of SetLevel calls, GetLevel calls and emits, the
\* threshold is at every moment, and in every read by GetLevel or by an emit,
\* the initial level or a level passed to a SetLevel call already begun; once
\* no SetLevel call is in flight the threshold is the level of the last store.
C18_LevelSafeUnderConcurrency ==
    /\ \A c \in DOMAIN levels : levels[c] \in AllowedLevels(c)
    /\ ret.op = "GetLevel" => ret.lvl \in AllowedLevels(ret.ctl)
    /\ lastEmit.pipe > 0 => lastEmit.thr \in AllowedLevels(pipes[lastEmit.pipe].level)
    /\ (setCalls.inflight = {} /\ lastSet.ctl # 0) => levels[lastSet.ctl] = lastSet.lvl

\* Two overlapping SetLevel calls have both completed, and a GetLevel between
\* their stores returned the level of the first, since overwritten.
C18_Witness ==
    /\ setCalls.inflight = {}
    /\ Cardinality(setCalls.passed) >= 2
    /\ ret.op = "GetLevel"
    /\ ret.lvl \notin InitialLevels(ret.ctl)
    /\ ret.lvl # levels[ret.ctl]
    /\ lastSet.ctl = ret.ctl
    /\ lastEmit.pipe > 0

\* The rule documented on SamplingConfig, on a count n: the first Initial
\* entries are logged, then Thereafter entries are dropped for each one logged.
DocumentedEmits(n, initial, thereafter) ==
    n <= initial \/ (n - initial) % (thereafter + 1) = 0

\* C19: inside one window, after the first Initial entries of a level and
\* message have been logged, Thereafter entries are dropped for each duplicate
\* that is logged: Thereafter entries are dropped between two consecutive
\* logged duplicates.
C19_ThereafterIsDropCount ==
    Counted =>
        IF DocumentedEmits(lastEmit.n, pipes[lastEmit.pipe].sampler.first,
                           pipes[lastEmit.pipe].sampler.thereafter)
        THEN Delivered ELSE Dropped

\* C20: the level is looked at before the sampler and the sampler before the
\* sinks.  An event below the threshold reaches no sink and leaves every
\* counter as it was; an event the sampler counts goes to every sink or to
\* none; and the first event of a counter's pairs at or above the threshold
\* is counted as n = 1 and emitted, whatever was rejected before it.
C20_ThresholdBeforeSampler ==
    /\ [][(lastEmit' # lastEmit /\ lastEmit'.pipe > 0 /\ lastEmit'.lvl < lastEmit'.thr) =>
             /\ counts' = counts
             /\ out' = out
             /\ lastEmit'.n = 0
             /\ lastEmit'.tried = {}]_vars
    /\ [](Counted => Delivered \/ Dropped)
    /\ [](\A p \in DOMAIN pipes : \A key \in CounterKeys :
             OccSum(occ[p].of, PairsOf(key)) = 0 => counts[p][key].n = 0)
    /\ []((Counted /\ OccSum(occ[lastEmit.pipe].of,
                             PairsOf(CounterKey(lastEmit.lvl, lastEmit.msg))) = 1)
             => lastEmit.n = 1 /\ Delivered)

\* A Debug event was rejected under the threshold info; the threshold was
\* lowered to debug inside the same second, and the next Debug event of that
\* message was counted as the first and written to every sink.
C20_Witness ==
    /\ Counted
    /\ now = 0
    /\ lastEmit.lvl = DebugLevel
    /\ << lastEmit.lvl, lastEmit.msg >> \in occ[lastEmit.pipe].below
    /\ lastSet.ctl = pipes[lastEmit.pipe].level
    /\ lastSet.lvl = DebugLevel
    /\ lastEmit.thr = DebugLevel
    /\ lastEmit.n = 1
    /\ Delivered
    /\ Cardinality(lastEmit.wrote) = 2

\* What sink i of pipeline p holds, the encoding left aside.
Held(p, i) ==
    [j \in DOMAIN out[p][i] |-> [lvl |-> out[p][i][j].lvl, msg |-> out[p][i][j].msg,
                                 fields |-> out[p][i][j].fields]]

\* The sinks of pipeline p whose destination works.
Healthy(p) == {i \in DOMAIN pipes[p].cores : pipes[p].cores[i].dest \notin failing}

\* C21: the sampling decision is made once for all the sinks of a pipeline.
\* Every event goes to every working sink or to none, and the working sinks of
\* one pipeline hold the same events: none holds an event that sampling
\* withheld from another.
C21_OneDecisionForAllSinks ==
    /\ [][lastEmit' # lastEmit /\ lastEmit'.pipe > 0 =>
             LET p == lastEmit'.pipe
                 H == {i \in DOMAIN pipes[p].cores : pipes[p].cores[i].dest \notin failing}
             IN  \/ \A i \in H : Len(out'[p][i]) = Len(out[p][i]) + 1
                 \/ \A i \in H : out'[p][i] = out[p][i]]_vars
    /\ [](\A p \in DOMAIN pipes : \A i, j \in Healthy(p) : Held(p, i) = Held(p, j))

\* Under {1, 0} on three sinks, the first event is on all three and the
\* second, of a message in the same bucket, on none, while the export file has
\* started to fail.
C21_Witness ==
    /\ Counted
    /\ lastEmit.n = 2
    /\ Dropped
    /\ Cardinality(DOMAIN pipes[lastEmit.pipe].cores) = 3
    /\ Cardinality(Healthy(lastEmit.pipe)) = 2
    /\ \A i \in Healthy(lastEmit.pipe) : Len(out[lastEmit.pipe][i]) = 1

\* The AtomicLevel the sinks of the root package's default logger consult: 0
\* when no logger is registered.
DefaultLevel ==
    IF globalLogger["root"] = NilLogger THEN 0 ELSE pipes[globalLogger["root"].pipe].level

\* C22: the default logger and the default level of the root package belong to
\* one pipeline, whatever New calls overlap: globalLevel is the AtomicLevel of
\* every sink of the default logger, GlobalLevel returns it, and a step that
\* changes the threshold of a root pipeline changes that of the default logger
\* and of no other.
C22_DefaultLoggerAndLevelTogether ==
    /\ [](globalLevel = DefaultLevel)
    /\ [](globalLogger["root"] # NilLogger =>
             \A i \in DOMAIN pipes[globalLogger["root"].pipe].cores :
                 pipes[globalLogger["root"].pipe].cores[i].lvl = globalLevel)
    /\ [][(ret' # ret /\ ret'.op = "GlobalLevel") => ret'.ctl = DefaultLevel]_vars
    /\ [][Len(levels') = Len(levels) =>
             \A c \in DOMAIN levels : levels'[c] # levels[c] =>
                 \/ c = DefaultLevel
                 \/ \E p \in DOMAIN pipes : pipes[p].pkg = "pkg" /\ pipes[p].level = c]_vars

\* Two New calls of the root package overlapped and the one that began first
\* registered last; SetGlobalLevel("debug") lowered its threshold and left the
\* other pipeline's alone, and GlobalLevel returns its AtomicLevel.
C22_Witness ==
    /\ Len(pipes) = 2
    /\ pending = {}
    /\ pipes[1].pkg = "root" /\ pipes[2].pkg = "root"
    /\ pipes[1].via = "New" /\ pipes[2].via = "New"
    /\ globalLogger["root"] = HandleOf(1)
    /\ lastSet.ctl = pipes[1].level
    /\ levels[pipes[1].level] = DebugLevel
    /\ levels[pipes[2].level] = InfoLevel
    /\ ret.op = "GlobalLevel"
    /\ ret.ctl = pipes[1].level
    /\ lastEmit.pipe = 1
    /\ lastEmit.wrote # {}

\* C23: GlobalLevel and SetGlobalLevel called before any New has registered
\* complete without a panic, and Global still returns the no-op logger.
C23_SafeBeforeNew ==
    (ret.op \in {"GlobalLevel", "SetGlobalLevel"} /\ ret.ctl = 0)
        => ~ ret.panic /\ ret.res = NopLogger

\* C24: the default logger and level of a package change only in a step in
\* which a New of that package registers: attaching a logger to a context,
\* looking one up, deriving, writing, changing a level and NewWithLevel leave
\* them as they were.  FromContext on a context whose chain carries no logger
\* of the package returns the default, whatever is attached to other contexts.
C24_DefaultChangedOnlyByNew ==
    /\ [][\A pkg \in Pkgs : globalLogger'[pkg] # globalLogger[pkg] =>
             \E p \in Registering : pipes[p].pkg = pkg]_vars
    /\ [][globalLevel' # globalLevel => \E p \in Registering : pipes[p].pkg = "root"]_vars
    /\ [][(ret' # ret /\ ret'.op = "FromContext" /\ Attached(ret'.pkg, ret'.ctx) = {}) =>
             /\ ret'.res = IF globalLogger[ret'.pkg] = NilLogger THEN NopLogger
                           ELSE globalLogger[ret'.pkg]
             /\ globalLogger' = globalLogger]_vars

\* The logger NewWithLevel built is attached to a context of the root package
\* and its level was changed; FromContext on the background context, which
\* carries none, still returns the logger New registered.
C24_Witness ==
    /\ Len(ctxs) >= 2
    /\ ctxs[2].key = "root"
    /\ ctxs[2].val # NilLogger
    /\ ctxs[2].val.pipe > 0
    /\ pipes[ctxs[2].val.pipe].via = "NewWithLevel"
    /\ globalLogger["root"] # NilLogger
    /\ globalLogger["root"].pipe # ctxs[2].val.pipe
    /\ lastSet.ctl = globalLevel
    /\ ret.op = "FromContext"
    /\ ret.pkg = "root"
    /\ ret.ctx = 1
    /\ ret.res = globalLogger["root"]

\* The stacktrace level a configuration asks for: error when it names no
\* valid level.
TriggerFor(cfg) ==
    IF cfg.StacktraceLevel \in DOMAIN SeverityOf THEN SeverityOf[cfg.StacktraceLevel]
    ELSE ErrorLevel

\* C25: with the stacktrace capture enabled, a written event carries a stack
\* if and only if its level is at or above the configured stacktrace level,
\* which is error whenever the configuration names no valid level; with the
\* capture disabled no event carries a stack.
C25_StackAtTriggerLevel ==
    \A p \in DOMAIN pipes : \A i \in DOMAIN out[p] : \A j \in DOMAIN out[p][i] :
        IF pipes[p].cfg.DisableStacktrace THEN ~ out[p][i][j].stack
        ELSE out[p][i][j].stack <=> out[p][i][j].lvl >= TriggerFor(pipes[p].cfg)

====
